---- MODULE Spec2Model ----
(***************************************************************************)
(* Model of the interview-preparation backend: the MongoDB collections     *)
(* (users, sessions, questions, quizzes, study_materials,                  *)
(* password_reset_otps) and the request handlers that read and write them. *)
(* A handler that awaits several database operations is modelled as one    *)
(* action per awaited operation; requests in flight keep their local       *)
(* variables in a slot of `reqs`.                                          *)
(***************************************************************************)
EXTENDS Integers, Sequences, FiniteSets, TLC

\* ---------------------------------------------------------------- bounds
MaxSessions == 2          \* session ObjectIds ever allocated
MaxQuestions == 3         \* question ObjectIds ever allocated
MaxPairs == 2             \* question/answer pairs in one request body
MaxProcs == 2             \* requests served concurrently
MaxConcSessions == 1      \* sessions created while requests interleave, or beside pin and note requests
MaxConcQuestions == 2     \* questions created while requests interleave, or beside pin and note requests
MaxQuizzes == 1           \* quiz ObjectIds ever allocated
MaxNumQ == 2              \* numberOfQuestions asked for, and answers submitted
MaxSideSessions == 1      \* sessions created beside quiz or study-material requests
MaxSideQuestions == 1     \* questions created beside quiz or study-material requests
MaxMaterials == 3         \* study-material ObjectIds ever allocated
MaxRequests == 6          \* requests that pass through the tracker middleware
MaxHistory == 3           \* entries the request log keeps (1000 in the program)
MaxLen == 5               \* characters of an LLM response text
MaxNewUsers == 2          \* user documents inserted by the registration handlers

\* ------------------------------------------------------ program constants
FRESH_DAYS == 7           \* timedelta(days=7)
MAX_ATTEMPTS == 3
BLOCK_DURATION == 60      \* timedelta(hours=1), in minutes
OTP_EXPIRY == 5           \* timedelta(minutes=5)

\* ------------------------------------------------------------ input sets
UserIds == {"root", "alice"}
QTexts == {"qa", "qb"}
SessionIds == 1..MaxSessions
QuestionIds == 1..MaxQuestions
Procs == 1..MaxProcs
PairSeqs == UNION {[1..k -> QTexts] : k \in 0..MaxPairs}
ConcPairSeqs == {<<>>, <<"qa">>}
QuizPairSeqs == {<<>>, <<"qa">>}
QuizIds == 1..MaxQuizzes
MaterialIds == 1..MaxMaterials
\* the days on which study-material requests arrive
RequestDays == {0, 6, 7, 13}
\* the minutes at which password-reset requests arrive
RequestMinutes == {0, 4, 5, 59, 60, 65}
\* what generate_study_materials_with_ai returns: the LLM's selection, or the
\* plain search result when any LLM step raised
PipelineOutcomes == {"gemini-2.5-flash", "tavily_search_fallback"}
\* e-mail addresses of password-reset requests: an account's, and one of no account
Emails == {"alice", "nobody"}
OtpCodes == {"111111", "222222"}
Passwords == {"p1", "p2"}
\* Gemini API keys a client may send; "none": the field is not in the body
KeyTexts == {"k1", "k2"}
KeyInputs == KeyTexts \cup {"none", ""}
\* e-mail addresses of registrations: an account's and a new one
RegEmails == {"alice", "bob"}
\* the ObjectIds of the user documents inserted after start-up, in order
NewUserIds == <<"u1", "u2", "u3", "u4">>
\* roles an admin may send; "none": the field is not in the body
RoleInputs == {"none", "admin", "owner"}
\* what GeminiService.generate may do: raise one of the exceptions the
\* handlers name (a ClientError with or without RESOURCE_EXHAUSTED in its
\* text), or return text that parses as JSON or does not
LlmErrors == {"ResourceExhausted", "PermissionDenied", "ServerError", "TooManyRequests",
              "ClientError:RESOURCE_EXHAUSTED", "ClientError"}
GeminiOutcomes == LlmErrors \cup {"json", "unparsable"}
\* characters of an LLM response: a code fence (three backquotes), the word json, brackets,
\* braces, a blank, and a JSON string that holds an escaped newline
Tokens == {"fence", "json", "[", "]", "{", "}", " ", "str"}
Texts == UNION {[1..k -> Tokens] : k \in 0..MaxLen}
\* the parser has not been called; the parser raised
Unparsed == [depth |-> -2, leaf |-> "unparsed"]
ParseError == [depth |-> -1, leaf |-> "error"]
\* Python's None in a document field or an LLM dictionary
None == -100
\* answers lists of a QuizSubmission body (List[int], min_items=1)
AnswerVals == {-1, 0, 3, 4}
Submissions == UNION {[1..k -> AnswerVals] : k \in 1..MaxNumQ}
\* what the LLM may return for a quiz-generation prompt
GoodItems == {[hasFields |-> TRUE, numOptions |-> 4, correctAnswer |-> c] : c \in {0, 3}}
BadItems == {[hasFields |-> FALSE, numOptions |-> 4, correctAnswer |-> 0],
             [hasFields |-> TRUE, numOptions |-> 3, correctAnswer |-> 0],
             [hasFields |-> TRUE, numOptions |-> 4, correctAnswer |-> 4]}
LlmItems == GoodItems \cup BadItems
LlmQuizOutputs ==
    {[kind |-> "error", items |-> <<>>], [kind |-> "notlist", items |-> <<>>]}
    \cup {[kind |-> "list", items |-> l] : l \in UNION {[1..k -> LlmItems] : k \in 0..MaxNumQ}}
\* what the LLM may return for a quiz-evaluation prompt
LlmEvalOutputs ==
    {[kind |-> "error", score |-> None, total |-> None]}
    \cup {[kind |-> "dict", score |-> sc, total |-> t] :
             sc \in {None, 1, 7}, t \in {None, 2, 7}}

VARIABLES
    users,            \* users collection: _id -> [role, geminiApiKey]
    sessions,         \* sessions collection: _id -> [user, questions]
    questions,        \* questions collection: _id -> [session, question, isPinned, note]
    nextSid,          \* next fresh ObjectId of a session
    nextQid,          \* next fresh ObjectId of a question
    reqs,             \* requests in flight: slot -> locals of the handler
    resp,             \* the response most recently returned
    deletedOk,        \* sessions for which a delete request answered success
    quizzes,          \* quizzes collection: _id -> quiz document
    nextZid,          \* next fresh ObjectId of a quiz
    submittedOk,      \* quiz _id -> the document its first successful submission wrote
    evalFailed,       \* quizzes for which a submission ended in a failed evaluation
    study_materials,  \* study_materials collection: _id -> cache entry
    nextMid,          \* next fresh ObjectId of a study material
    today,            \* datetime.utcnow() of the study-material handlers, in days
    passwords,        \* users.password: user -> stored hash
    reset_otps,       \* password_reset_otps collection: userId -> record
    now,              \* datetime.now(timezone.utc) of the auth handlers, in minutes
    otpHist,          \* per account: what the OTP flow has done so far
    _request_history, \* system_controller._request_history: the entries kept
    tracked,          \* every entry track_request was ever called with, in call order
    calls,            \* per slot: the request the tracker middleware is serving, or 0
    nextRid,          \* number of the next request to arrive at the middleware
    response_text,    \* parse_gemini_json_response: the text it is called with
    fix_newlines,     \* parse_gemini_json_response: its flag
    parsed,           \* parse_gemini_json_response: what it returned or raised
    emails,           \* users.email: _id of a user document -> its email field
    nextUid           \* index in NewUserIds of the next fresh ObjectId of a user

quizVars == <<quizzes, nextZid, submittedOk, evalFailed>>
studyAux == <<nextMid, today>>
otpVars == <<passwords, reset_otps, now, otpHist>>
trackVars == <<_request_history, tracked, calls, nextRid>>
parseVars == <<response_text, fix_newlines, parsed>>
mailVars == <<emails, nextUid>>
notSess == <<quizVars, studyAux, otpVars, trackVars, parseVars, mailVars>>

vars == <<users, sessions, questions, nextSid, nextQid, reqs, resp, deletedOk,
          quizzes, nextZid, submittedOk, evalFailed, study_materials, nextMid, today,
          passwords, reset_otps, now, otpHist, _request_history, tracked, calls,
          nextRid, response_text, fix_newlines, parsed, emails, nextUid>>

\* ------------------------------------------------------- collection helpers
Insert(coll, id, doc) == coll @@ (id :> doc)
\* delete_many / delete_one: the documents whose _id is in ids are removed
Delete(coll, ids) == [i \in DOMAIN coll \ ids |-> coll[i]]
RangeOf(s) == {s[i] : i \in DOMAIN s}

Idle == [op |-> "idle", pc |-> "idle", user |-> "-", sid |-> 0, uid |-> "-",
         pairs |-> <<>>, ids |-> <<>>, sids |-> {},
         zid |-> 0, answers |-> <<>>, doc |-> <<>>, upd |-> <<>>, after |-> FALSE]

InFlight == {p \in Procs : reqs[p].pc # "idle"}

\* the framework hands a new request to a free slot while fewer than lim
\* requests are being served
Admit(lim, p) ==
    /\ reqs[p].pc = "idle"
    /\ \A q \in Procs : q < p => reqs[q].pc # "idle"
    /\ Cardinality(InFlight) < lim

\* protect: the bearer token names a user document that exists
Authenticated(u) == u \in DOMAIN users

\* question inserts still to be made by the request in slot p
PendingQ(p) ==
    IF reqs[p].pc = "create_q" THEN Len(reqs[p].pairs) - Len(reqs[p].ids)
    ELSE IF reqs[p].pc = "add_insert" THEN Len(reqs[p].pairs)
    ELSE 0

RECURSIVE SumPending(_)
SumPending(S) ==
    IF S = {} THEN 0
    ELSE LET p == CHOOSE x \in S : TRUE IN PendingQ(p) + SumPending(S \ {p})

RoomForQuestions(n, capQ) == (nextQid - 1) + SumPending(Procs) + n <= capQ

\* hash_password / verify_password: a salted hash that only its own input verifies
Hash(pw) == <<"hash", pw>>
verify_password(pw, h) == h = Hash(pw)

\* users.geminiApiKey: the field is missing, holds None, or holds a ciphertext
NoKeyField == <<"absent", "-">>
NullKey == <<"null", "-">>
\* utils.encryption: Fernet encryption of a key, its inverse, and the mask that
\* keeps the first and last four characters
encrypt(k) == <<"enc", k>>
decrypt(c) == c[2]
mask_key(k) == <<"mask", k>>
\* a key as the client sent it, and no key at all, in a response body
Plain(k) == <<"plain", k>>
NoKeyShown == <<"none", "-">>
\* user_doc.get("geminiApiKey") is truthy
HasKey(u) == u \in DOMAIN users /\ users[u].geminiApiKey[1] = "enc"

\* no document in password_reset_otps for the account
NoRecord == [exists |-> FALSE]
\* streak: invalid codes compared in a row against the account's record;
\* lastBad: when the last of them was sent; consumed: reset_password deleted
\* the record and no OTP was issued since; code: the OTP issued last
NoHist == [streak |-> 0, lastBad |-> 0, consumed |-> FALSE, code |-> "-",
           verified |-> FALSE]

\* the state after start-up, but for the parser's input
InitProgram ==
    /\ users = [u \in UserIds |->
                  [role |-> IF u = "root" THEN "admin" ELSE "user",
                   geminiApiKey |-> IF u = "root" THEN NoKeyField ELSE encrypt("k1")]]
    /\ sessions = <<>>
    /\ questions = <<>>
    /\ nextSid = 1
    /\ nextQid = 1
    /\ reqs = [p \in Procs |-> Idle]
    /\ resp = [op |-> "none"]
    /\ deletedOk = {}
    /\ quizzes = <<>>
    /\ nextZid = 1
    /\ submittedOk = <<>>
    /\ evalFailed = {}
    /\ study_materials = <<>>
    /\ nextMid = 1
    /\ today = 0
    /\ passwords = [u \in UserIds |-> Hash("p1")]
    /\ reset_otps = [u \in UserIds |-> NoRecord]
    /\ now = 0
    /\ otpHist = [u \in UserIds |-> NoHist]
    /\ _request_history = <<>>
    /\ tracked = <<>>
    /\ calls = [p \in Procs |-> 0]
    /\ nextRid = 1
    /\ parsed = Unparsed
    /\ emails = [u \in UserIds |-> u]
    /\ nextUid = 1

Init == InitProgram /\ response_text = <<>> /\ fix_newlines = TRUE

\* the parser is about to be called with any text and either value of its flag
InitParse == InitProgram /\ response_text \in Texts /\ fix_newlines \in BOOLEAN

\* ------------------------------------------------------ create_new_session
\* sessions.insert_one(session_doc); with no pairs the handler returns here
CreateInsertSession(lim, capS, capQ, u, pairs) ==
    \E p \in Procs :
        /\ Admit(lim, p)
        /\ Authenticated(u)
        /\ nextSid <= capS
        /\ RoomForQuestions(Len(pairs), capQ)
        /\ sessions' = Insert(sessions, nextSid, [user |-> u, questions |-> <<>>])
        /\ nextSid' = nextSid + 1
        /\ IF pairs = <<>>
           THEN /\ resp' = [op |-> "create_new_session", status |-> 200,
                            sid |-> nextSid, pairs |-> pairs, ids |-> <<>>]
                /\ UNCHANGED reqs
           ELSE /\ reqs' = [reqs EXCEPT ![p] =
                              [Idle EXCEPT !.op = "create_new_session", !.pc = "create_q",
                                           !.user = u, !.sid = nextSid, !.pairs = pairs]]
                /\ UNCHANGED resp
        /\ UNCHANGED <<users, questions, nextQid, deletedOk, study_materials, notSess>>

\* question_ids.prepend: the new id put in front of the ids collected so far
question_ids_front(ids, id) == <<id>> \o ids

\* question_ids.append(result.inserted_id)
question_ids(ids, id) == Append(ids, id)

\* one turn of the loop: questions.insert_one(question_doc), for a body whose
\* questions leave isPinned at its default; the document gets no note field
CreateInsertQuestion(p) ==
    /\ reqs[p].pc = "create_q"
    /\ LET r == reqs[p]
           i == Len(r.ids) + 1
           ids2 == question_ids(r.ids, nextQid)
       IN /\ questions' = Insert(questions, nextQid,
                                 [session |-> r.sid, question |-> r.pairs[i],
                                  isPinned |-> FALSE, note |-> "absent"])
          /\ nextQid' = nextQid + 1
          /\ reqs' = [reqs EXCEPT ![p].ids = ids2,
                                  ![p].pc = IF Len(ids2) = Len(r.pairs)
                                            THEN "create_attach" ELSE "create_q"]
    /\ UNCHANGED <<users, sessions, nextSid, resp, deletedOk, study_materials, notSess>>

\* sessions.update_one({_id}, {$set: {questions: question_ids}}), then return
CreateAttach(p) ==
    /\ reqs[p].pc = "create_attach"
    /\ LET r == reqs[p]
       IN /\ sessions' = IF r.sid \in DOMAIN sessions
                         THEN [sessions EXCEPT ![r.sid].questions = r.ids]
                         ELSE sessions
          /\ resp' = [op |-> "create_new_session", status |-> 200,
                      sid |-> r.sid, pairs |-> r.pairs, ids |-> r.ids]
    /\ reqs' = [reqs EXCEPT ![p] = Idle]
    /\ UNCHANGED <<users, questions, nextSid, nextQid, deletedOk, study_materials, notSess>>

\* ---------------------------------------- add_questions_to_session_service
\* sessions.find_one; insert_many of an empty list raises before any write
AddFindSession(lim, capQ, u, sid, pairs) ==
    \E p \in Procs :
        /\ Admit(lim, p)
        /\ Authenticated(u)
        /\ RoomForQuestions(Len(pairs), capQ)
        /\ IF sid \notin DOMAIN sessions
           THEN /\ resp' = [op |-> "add_questions", status |-> 404]
                /\ UNCHANGED reqs
           ELSE IF pairs = <<>>
           THEN /\ resp' = [op |-> "add_questions", status |-> 500]
                /\ UNCHANGED reqs
           ELSE /\ reqs' = [reqs EXCEPT ![p] =
                              [Idle EXCEPT !.op = "add_questions", !.pc = "add_insert",
                                           !.user = u, !.sid = sid, !.pairs = pairs]]
                /\ UNCHANGED resp
        /\ UNCHANGED <<users, sessions, questions, nextSid, nextQid, deletedOk, study_materials, notSess>>

\* questions.insert_many(docs)
AddInsertMany(p) ==
    /\ reqs[p].pc = "add_insert"
    /\ LET r == reqs[p]
           n == Len(r.pairs)
           newIds == [i \in 1..n |-> nextQid + i - 1]
       IN /\ questions' = questions @@
                 [q \in RangeOf(newIds) |->
                    [session |-> r.sid, question |-> r.pairs[q - nextQid + 1],
                     isPinned |-> FALSE, note |-> ""]]
          /\ nextQid' = nextQid + n
          /\ reqs' = [reqs EXCEPT ![p].ids = newIds, ![p].pc = "add_push"]
    /\ UNCHANGED <<users, sessions, nextSid, resp, deletedOk, study_materials, notSess>>

\* the new ids put in front of the ids the session holds
AddPushFront(p) ==
    /\ reqs[p].pc = "add_push"
    /\ LET r == reqs[p]
       IN /\ sessions' = IF r.sid \in DOMAIN sessions
                         THEN [sessions EXCEPT ![r.sid].questions = r.ids \o @]
                         ELSE sessions
          /\ resp' = [op |-> "add_questions", status |-> 200]
    /\ reqs' = [reqs EXCEPT ![p] = Idle]
    /\ UNCHANGED <<users, questions, nextSid, nextQid, deletedOk, study_materials, notSess>>

\* sessions.update_one({_id}, {$push: {questions: {$each: inserted_ids}}})
AddPush(p) ==
    /\ reqs[p].pc = "add_push"
    /\ LET r == reqs[p]
       IN /\ sessions' = IF r.sid \in DOMAIN sessions
                         THEN [sessions EXCEPT ![r.sid].questions = @ \o r.ids]
                         ELSE sessions
          /\ resp' = [op |-> "add_questions", status |-> 200]
    /\ reqs' = [reqs EXCEPT ![p] = Idle]
    /\ UNCHANGED <<users, questions, nextSid, nextQid, deletedOk, study_materials, notSess>>

\* ------------------------------------------------ pin and note of a question
\* toggle_pin_question_service: the whole handler; the route passes the id
\* only, u is the user protect let through
TogglePin(u, qid) ==
    /\ InFlight = {}
    /\ Authenticated(u)
    /\ IF qid \notin DOMAIN questions
       THEN /\ resp' = [op |-> "toggle_pin", status |-> 404, user |-> u, qid |-> qid]
            /\ UNCHANGED questions
       ELSE /\ questions' = [questions EXCEPT ![qid].isPinned = ~@]
            /\ resp' = [op |-> "toggle_pin", status |-> 200, user |-> u, qid |-> qid]
    /\ UNCHANGED <<users, sessions, nextSid, nextQid, reqs, deletedOk, study_materials, notSess>>

\* update_question_note_service: the whole handler; note = "none" for a body
\* whose note is null
UpdateNote(u, qid, note) ==
    /\ InFlight = {}
    /\ Authenticated(u)
    /\ IF qid \notin DOMAIN questions
       THEN /\ resp' = [op |-> "update_note", status |-> 404, user |-> u, qid |-> qid]
            /\ UNCHANGED questions
       ELSE /\ questions' = [questions EXCEPT
                                ![qid].note = IF note = "none" THEN "" ELSE note]
            /\ resp' = [op |-> "update_note", status |-> 200, user |-> u, qid |-> qid]
    /\ UNCHANGED <<users, sessions, nextSid, nextQid, reqs, deletedOk, study_materials, notSess>>

\* requests of the session-creation and question routes, served one at a time
NextQuestion ==
    \/ \E u \in UserIds, pairs \in PairSeqs :
          CreateInsertSession(1, MaxConcSessions, MaxConcQuestions, u, pairs)
    \/ \E p \in Procs : CreateInsertQuestion(p)
    \/ \E p \in Procs : CreateAttach(p)
    \/ \E u \in UserIds, sid \in SessionIds, pairs \in PairSeqs :
          AddFindSession(1, MaxConcQuestions, u, sid, pairs)
    \/ \E p \in Procs : AddInsertMany(p)
    \/ \E p \in Procs : AddPush(p)
    \/ \E u \in UserIds, qid \in QuestionIds : TogglePin(u, qid)
    \/ \E u \in UserIds, qid \in QuestionIds, note \in {"none", "", "n1"} :
          UpdateNote(u, qid, note)

SpecQuestion == Init /\ [][NextQuestion]_vars

\* ---------------------------------------------------------- delete_session
\* the lookup without the ownership test
DeleteFindAnyCaller(lim, u, sid) ==
    \E p \in Procs :
        /\ Admit(lim, p)
        /\ Authenticated(u)
        /\ IF sid \notin DOMAIN sessions
           THEN /\ resp' = [op |-> "delete_session", status |-> 404]
                /\ UNCHANGED reqs
           ELSE /\ reqs' = [reqs EXCEPT ![p] =
                              [Idle EXCEPT !.op = "delete_session", !.pc = "del_q",
                                           !.user = u, !.sid = sid]]
                /\ UNCHANGED resp
        /\ UNCHANGED <<users, sessions, questions, nextSid, nextQid, deletedOk, study_materials, notSess>>

\* sessions.find_one({_id: session_id}), then the ownership test
DeleteFind(lim, u, sid) ==
    \E p \in Procs :
        /\ Admit(lim, p)
        /\ Authenticated(u)
        /\ IF sid \notin DOMAIN sessions
           THEN /\ resp' = [op |-> "delete_session", status |-> 404]
                /\ UNCHANGED reqs
           ELSE IF sessions[sid].user # u
           THEN /\ resp' = [op |-> "delete_session", status |-> 401]
                /\ UNCHANGED reqs
           ELSE /\ reqs' = [reqs EXCEPT ![p] =
                              [Idle EXCEPT !.op = "delete_session", !.pc = "del_q",
                                           !.user = u, !.sid = sid]]
                /\ UNCHANGED resp
        /\ UNCHANGED <<users, sessions, questions, nextSid, nextQid, deletedOk, study_materials, notSess>>

\* questions.delete_many({session: session_id})
DeleteQuestions(p) ==
    /\ reqs[p].pc = "del_q"
    /\ questions' = Delete(questions, {q \in DOMAIN questions : questions[q].session = reqs[p].sid})
    /\ reqs' = [reqs EXCEPT ![p].pc = "del_s"]
    /\ UNCHANGED <<users, sessions, nextSid, nextQid, resp, deletedOk, study_materials, notSess>>

\* sessions.delete_one({_id: session_id}), then return success
DeleteSessionDoc(p) ==
    /\ reqs[p].pc = "del_s"
    /\ sessions' = Delete(sessions, {s \in DOMAIN sessions : s = reqs[p].sid})
    /\ resp' = [op |-> "delete_session", status |-> 200]
    /\ deletedOk' = deletedOk \cup {reqs[p].sid}
    /\ reqs' = [reqs EXCEPT ![p] = Idle]
    /\ UNCHANGED <<users, questions, nextSid, nextQid, study_materials, notSess>>

\* ------------------------------------------------------ check_admin_access
IsAdmin(u) == u \in DOMAIN users /\ users[u].role = "admin"

\* ---------------------------------------------------- admin_delete_session
\* check_admin_access: users.find_one({_id: current_user})
AdminDelCheck(lim, cur, sid) ==
    \E p \in Procs :
        /\ Admit(lim, p)
        /\ Authenticated(cur)
        /\ IF ~IsAdmin(cur)
           THEN /\ resp' = [op |-> "admin_delete_session", status |-> 403]
                /\ UNCHANGED reqs
           ELSE /\ reqs' = [reqs EXCEPT ![p] =
                              [Idle EXCEPT !.op = "admin_delete_session", !.pc = "adel_find",
                                           !.user = cur, !.sid = sid]]
                /\ UNCHANGED resp
        /\ UNCHANGED <<users, sessions, questions, nextSid, nextQid, deletedOk, study_materials, notSess>>

\* sessions.find_one({_id: session_id})
AdminDelFind(p) ==
    /\ reqs[p].pc = "adel_find"
    /\ IF reqs[p].sid \notin DOMAIN sessions
       THEN /\ resp' = [op |-> "admin_delete_session", status |-> 404]
            /\ reqs' = [reqs EXCEPT ![p] = Idle]
       ELSE /\ reqs' = [reqs EXCEPT ![p].pc = "adel_q"]
            /\ UNCHANGED resp
    /\ UNCHANGED <<users, sessions, questions, nextSid, nextQid, deletedOk, study_materials, notSess>>

\* questions.delete_many({session: session_id})
AdminDelQuestions(p) ==
    /\ reqs[p].pc = "adel_q"
    /\ questions' = Delete(questions, {q \in DOMAIN questions : questions[q].session = reqs[p].sid})
    /\ reqs' = [reqs EXCEPT ![p].pc = "adel_s"]
    /\ UNCHANGED <<users, sessions, nextSid, nextQid, resp, deletedOk, study_materials, notSess>>

\* sessions.delete_one({_id: session_id}), then return success
AdminDelSessionDoc(p) ==
    /\ reqs[p].pc = "adel_s"
    /\ sessions' = Delete(sessions, {s \in DOMAIN sessions : s = reqs[p].sid})
    /\ resp' = [op |-> "admin_delete_session", status |-> 200]
    /\ deletedOk' = deletedOk \cup {reqs[p].sid}
    /\ reqs' = [reqs EXCEPT ![p] = Idle]
    /\ UNCHANGED <<users, questions, nextSid, nextQid, study_materials, notSess>>

\* ------------------------------------------------------- admin_delete_user
\* check_admin_access, then the self-deletion test
AduCheck(lim, cur, uid) ==
    \E p \in Procs :
        /\ Admit(lim, p)
        /\ Authenticated(cur)
        /\ IF ~IsAdmin(cur)
           THEN /\ resp' = [op |-> "admin_delete_user", status |-> 403]
                /\ UNCHANGED reqs
           ELSE IF uid = cur
           THEN /\ resp' = [op |-> "admin_delete_user", status |-> 400]
                /\ UNCHANGED reqs
           ELSE /\ reqs' = [reqs EXCEPT ![p] =
                              [Idle EXCEPT !.op = "admin_delete_user", !.pc = "adu_find",
                                           !.user = cur, !.uid = uid]]
                /\ UNCHANGED resp
        /\ UNCHANGED <<users, sessions, questions, nextSid, nextQid, deletedOk, study_materials, notSess>>

\* users.find_one({_id: user_id})
AduFindUser(p) ==
    /\ reqs[p].pc = "adu_find"
    /\ IF reqs[p].uid \notin DOMAIN users
       THEN /\ resp' = [op |-> "admin_delete_user", status |-> 404]
            /\ reqs' = [reqs EXCEPT ![p] = Idle]
       ELSE /\ reqs' = [reqs EXCEPT ![p].pc = "adu_sessions"]
            /\ UNCHANGED resp
    /\ UNCHANGED <<users, sessions, questions, nextSid, nextQid, deletedOk, study_materials, notSess>>

\* sessions.find({user: user_id}).to_list(None)
AduFindSessions(p) ==
    /\ reqs[p].pc = "adu_sessions"
    /\ reqs' = [reqs EXCEPT ![p].sids = {s \in DOMAIN sessions : sessions[s].user = reqs[p].uid},
                            ![p].pc = "adu_q"]
    /\ UNCHANGED <<users, sessions, questions, nextSid, nextQid, resp, deletedOk, study_materials, notSess>>

\* questions.delete_many({session: {$in: session_ids}})
AduDeleteQuestions(p) ==
    /\ reqs[p].pc = "adu_q"
    /\ questions' = Delete(questions, {q \in DOMAIN questions : questions[q].session \in reqs[p].sids})
    /\ reqs' = [reqs EXCEPT ![p].pc = "adu_sm"]
    /\ UNCHANGED <<users, sessions, nextSid, nextQid, resp, deletedOk, study_materials, notSess>>

\* the study materials of the user are left in place
AduKeepMaterials(p) ==
    /\ reqs[p].pc = "adu_sm"
    /\ reqs' = [reqs EXCEPT ![p].pc = "adu_s"]
    /\ UNCHANGED <<users, sessions, questions, nextSid, nextQid, resp, deletedOk,
                   study_materials, notSess>>

\* study_materials.delete_many({user_id: user_id})
AduDeleteMaterials(p) ==
    /\ reqs[p].pc = "adu_sm"
    /\ study_materials' = Delete(study_materials, {m \in DOMAIN study_materials : study_materials[m].user_id = reqs[p].uid})
    /\ reqs' = [reqs EXCEPT ![p].pc = "adu_s"]
    /\ UNCHANGED <<users, sessions, questions, nextSid, nextQid, resp, deletedOk, notSess>>

\* sessions.delete_many({_id: {$in: session_ids}})
AduDeleteSessions(p) ==
    /\ reqs[p].pc = "adu_s"
    /\ sessions' = Delete(sessions, {s \in DOMAIN sessions : s \in reqs[p].sids})
    /\ reqs' = [reqs EXCEPT ![p].pc = "adu_u"]
    /\ UNCHANGED <<users, questions, nextSid, nextQid, resp, deletedOk, study_materials, notSess>>

\* users.delete_one({_id: user_id}), then return success
AduDeleteUser(p) ==
    /\ reqs[p].pc = "adu_u"
    /\ users' = Delete(users, {u \in DOMAIN users : u = reqs[p].uid})
    /\ resp' = [op |-> "admin_delete_user", status |-> 200, uid |-> reqs[p].uid,
                sids |-> reqs[p].sids]
    /\ reqs' = [reqs EXCEPT ![p] = Idle]
    /\ UNCHANGED <<sessions, questions, nextSid, nextQid, deletedOk, study_materials, notSess>>

\* ------------------------------------------- requests of the session routes
\* PS: the question/answer lists a request body may carry
NextSession(lim, PS, capS, capQ) ==
    \/ \E u \in UserIds, pairs \in PS : CreateInsertSession(lim, capS, capQ, u, pairs)
    \/ \E p \in Procs : CreateInsertQuestion(p)
    \/ \E p \in Procs : CreateAttach(p)
    \/ \E u \in UserIds, sid \in SessionIds, pairs \in PS : AddFindSession(lim, capQ, u, sid, pairs)
    \/ \E p \in Procs : AddInsertMany(p)
    \/ \E p \in Procs : AddPush(p)
    \/ \E u \in UserIds, sid \in SessionIds : DeleteFind(lim, u, sid)
    \/ \E p \in Procs : DeleteQuestions(p)
    \/ \E p \in Procs : DeleteSessionDoc(p)
    \/ \E u \in UserIds, sid \in SessionIds : AdminDelCheck(lim, u, sid)
    \/ \E p \in Procs : AdminDelFind(p)
    \/ \E p \in Procs : AdminDelQuestions(p)
    \/ \E p \in Procs : AdminDelSessionDoc(p)
    \/ \E u \in UserIds, uid \in UserIds : AduCheck(lim, u, uid)
    \/ \E p \in Procs : AduFindUser(p)
    \/ \E p \in Procs : AduFindSessions(p)
    \/ \E p \in Procs : AduDeleteQuestions(p)
    \/ \E p \in Procs : AduDeleteMaterials(p)
    \/ \E p \in Procs : AduDeleteSessions(p)
    \/ \E p \in Procs : AduDeleteUser(p)

\* ---------------------------------------------------- generate_quiz_service
\* the shape test without the range test on correctAnswer
ValidItemAnyIndex(q) ==
    /\ q.hasFields
    /\ q.numOptions = 4

\* the shape test applied to each item of the parsed LLM list
ValidItem(q) ==
    /\ q.hasFields
    /\ q.numOptions = 4
    /\ 0 <= q.correctAnswer /\ q.correctAnswer <= 3

\* the whole handler: session lookup, context questions, LLM call, validation,
\* quizzes.insert_one(quiz_doc)
GenerateQuiz(lim, u, sid, n, out) ==
    \E p \in Procs :
        /\ Admit(lim, p)
        /\ Authenticated(u)
        /\ nextZid <= MaxQuizzes
        /\ IF sid \notin DOMAIN sessions
           THEN /\ resp' = [op |-> "generate_quiz", status |-> 404]
                /\ UNCHANGED <<quizzes, nextZid>>
           ELSE IF {q \in DOMAIN questions : questions[q].session = sid} = {}
           THEN /\ resp' = [op |-> "generate_quiz", status |-> 400]
                /\ UNCHANGED <<quizzes, nextZid>>
           ELSE IF out.kind # "list" \/ \E i \in DOMAIN out.items : ~ValidItem(out.items[i])
           THEN /\ resp' = [op |-> "generate_quiz", status |-> 500]
                /\ UNCHANGED <<quizzes, nextZid>>
           ELSE /\ quizzes' = Insert(quizzes, nextZid,
                                     [sessionId |-> sid, userId |-> u,
                                      questions |-> out.items,
                                      totalQuestions |-> n,
                                      status |-> "active",
                                      score |-> None,
                                      userAnswers |-> [i \in 1..n |-> None],
                                      started |-> {0},
                                      currentQuestion |-> 0])
                /\ nextZid' = nextZid + 1
                /\ resp' = [op |-> "generate_quiz", status |-> 200]
        /\ UNCHANGED <<users, sessions, questions, nextSid, nextQid, reqs, deletedOk,
                       submittedOk, evalFailed, study_materials, studyAux, otpVars, trackVars, parseVars, mailVars>>

\* ------------------------------------------------------ submit_quiz_service
\* the loop over the answers: TRUE when it raises 400
AnswerRejected(answers, is_auto_submit) ==
    \E i \in DOMAIN answers :
        \/ answers[i] = None /\ ~is_auto_submit
        \/ answers[i] # None /\ ~(-1 <= answers[i] /\ answers[i] <= 3)

processed_answers(answers) ==
    [i \in DOMAIN answers |-> IF answers[i] = None THEN -1 ELSE answers[i]]

correct_count(qs, answers) ==
    Cardinality({i \in DOMAIN qs : i <= Len(answers) /\ answers[i] = qs[i].correctAnswer})

\* the $set document built from the LLM's evaluation and the quiz read earlier
update_data(quiz, answers, out) ==
    [status |-> "completed",
     userAnswers |-> answers,
     score |-> IF out.score = None THEN correct_count(quiz.questions, answers)
               ELSE out.score,
     totalQuestions |-> IF out.score = None \/ out.total = None
                        THEN Len(quiz.questions) ELSE out.total]

\* only an auto-submitted quiz counts as submitted
AutoSubmittedOnly(quiz) == quiz.status = "auto_submitted"

\* quiz.get("status") in ["completed", "auto_submitted"]
AlreadySubmitted(quiz) == quiz.status \in {"completed", "auto_submitted"}

SubmitResp(status, msg, r, llm, wrote) ==
    [op |-> "submit_quiz", status |-> status, msg |-> msg, zid |-> r.zid,
     user |-> r.user, after |-> r.after, llm |-> llm, wrote |-> wrote]

\* quizzes.find_one, then the checks made before the LLM is called
SubmitFind(lim, u, zid, answers) ==
    \E p \in Procs :
        /\ Admit(lim, p)
        /\ Authenticated(u)
        /\ LET r == [Idle EXCEPT !.op = "submit_quiz", !.pc = "submit_llm", !.user = u,
                                 !.zid = zid, !.answers = answers,
                                 !.after = zid \in DOMAIN submittedOk]
               reject(st, msg) == /\ resp' = SubmitResp(st, msg, r, FALSE, FALSE)
                                  /\ UNCHANGED reqs
           IN IF zid \notin DOMAIN quizzes THEN reject(404, "Quiz not found")
              ELSE IF quizzes[zid].userId # u THEN reject(403, "Not authorized")
              ELSE IF AlreadySubmitted(quizzes[zid])
                   THEN reject(400, "Quiz already submitted")
              ELSE IF Len(answers) # quizzes[zid].totalQuestions
                   THEN reject(400, "Invalid number of answers")
              ELSE IF AnswerRejected(answers, FALSE)
                   THEN reject(400, "Invalid answer index")
              ELSE /\ reqs' = [reqs EXCEPT ![p] =
                                 [r EXCEPT !.doc = quizzes[zid],
                                           !.answers = processed_answers(answers)]]
                   /\ UNCHANGED resp
        /\ UNCHANGED <<users, sessions, questions, nextSid, nextQid, deletedOk,
                       quizVars, study_materials, studyAux, otpVars, trackVars, parseVars, mailVars>>

\* the evaluation without the except branch: an error of the LLM call or of
\* the parser is treated as an output without a score
SubmitEvaluateNoCatch(p, out) ==
    /\ reqs[p].pc = "submit_llm"
    /\ reqs' = [reqs EXCEPT ![p].pc = "submit_update",
                            ![p].upd = update_data(reqs[p].doc, reqs[p].answers,
                                                   [out EXCEPT !.score = None])]
    /\ UNCHANGED <<users, sessions, questions, nextSid, nextQid, resp, deletedOk,
                   quizVars, study_materials, studyAux, otpVars, trackVars, parseVars, mailVars>>

\* generate_with_gemini(prompt) and parse_gemini_json_response; without a score
\* the percentage divides by len(quiz["questions"])
SubmitEvaluate(p, out) ==
    /\ reqs[p].pc = "submit_llm"
    /\ IF out.kind = "error" \/ (out.score = None /\ Len(reqs[p].doc.questions) = 0)
       THEN /\ resp' = SubmitResp(500, "Failed to evaluate quiz", reqs[p], TRUE, FALSE)
            /\ reqs' = [reqs EXCEPT ![p] = Idle]
            /\ evalFailed' = evalFailed \cup {reqs[p].zid}
       ELSE /\ reqs' = [reqs EXCEPT ![p].pc = "submit_update",
                                    ![p].upd = update_data(reqs[p].doc, reqs[p].answers, out)]
            /\ UNCHANGED <<resp, evalFailed>>
    /\ UNCHANGED <<users, sessions, questions, nextSid, nextQid, deletedOk,
                   quizzes, nextZid, submittedOk, study_materials, studyAux, otpVars,
                   trackVars, parseVars, mailVars>>

\* quizzes.update_one({_id}, {$set: update_data}), then return the results
SubmitUpdate(p) ==
    /\ reqs[p].pc = "submit_update"
    /\ LET r == reqs[p]
       IN /\ quizzes' = IF r.zid \in DOMAIN quizzes
                        THEN [quizzes EXCEPT ![r.zid] =
                                [@ EXCEPT !.status = r.upd.status,
                                          !.userAnswers = r.upd.userAnswers,
                                          !.score = r.upd.score,
                                          !.totalQuestions = r.upd.totalQuestions]]
                        ELSE quizzes
          /\ resp' = SubmitResp(200, "success", r, TRUE, r.zid \in DOMAIN quizzes)
          /\ submittedOk' = IF r.zid \in DOMAIN quizzes /\ r.zid \notin DOMAIN submittedOk
                             THEN Insert(submittedOk, r.zid, quizzes'[r.zid])
                             ELSE submittedOk
    /\ reqs' = [reqs EXCEPT ![p] = Idle]
    /\ UNCHANGED <<users, sessions, questions, nextSid, nextQid, deletedOk,
                   nextZid, evalFailed, study_materials, studyAux, otpVars, trackVars, parseVars, mailVars>>

\* ------------------------------------------------------ delete_quiz_service
DeleteQuiz(lim, u, zid) ==
    \E p \in Procs :
        /\ Admit(lim, p)
        /\ Authenticated(u)
        /\ IF zid \notin DOMAIN quizzes
           THEN /\ resp' = [op |-> "delete_quiz", status |-> 404]
                /\ UNCHANGED quizzes
           ELSE IF quizzes[zid].userId # u
           THEN /\ resp' = [op |-> "delete_quiz", status |-> 403]
                /\ UNCHANGED quizzes
           ELSE /\ quizzes' = Delete(quizzes, {z \in DOMAIN quizzes : z = zid})
                /\ resp' = [op |-> "delete_quiz", status |-> 200]
        /\ UNCHANGED <<users, sessions, questions, nextSid, nextQid, reqs, deletedOk,
                       nextZid, submittedOk, evalFailed, study_materials, studyAux, otpVars, trackVars, parseVars, mailVars>>

\* ---------------------------------------------- track_question_time_service
\* quizzes.find_one, then the checks made before the write
TrackFind(lim, u, zid, question_index) ==
    \E p \in Procs :
        /\ Admit(lim, p)
        /\ Authenticated(u)
        /\ LET reject(st) == /\ resp' = [op |-> "track_question_time", status |-> st]
                             /\ UNCHANGED reqs
           IN IF zid \notin DOMAIN quizzes THEN reject(404)
              ELSE IF quizzes[zid].userId # u THEN reject(403)
              ELSE IF quizzes[zid].status # "active" THEN reject(400)
              ELSE IF question_index < 0 \/ question_index >= quizzes[zid].totalQuestions
                   THEN reject(400)
              ELSE /\ reqs' = [reqs EXCEPT ![p] =
                                 [Idle EXCEPT !.op = "track_question_time",
                                              !.pc = "track_update", !.user = u,
                                              !.zid = zid,
                                              !.upd = [currentQuestion |-> question_index,
                                                       started |-> quizzes[zid].started
                                                                   \cup {question_index}]]]
                   /\ UNCHANGED resp
        /\ UNCHANGED <<users, sessions, questions, nextSid, nextQid, deletedOk,
                       quizVars, study_materials, studyAux, otpVars, trackVars, parseVars, mailVars>>

\* quizzes.update_one({_id}, {$set: currentQuestion, questionStartTimes})
TrackUpdate(p) ==
    /\ reqs[p].pc = "track_update"
    /\ LET r == reqs[p]
       IN quizzes' = IF r.zid \in DOMAIN quizzes
                     THEN [quizzes EXCEPT ![r.zid] =
                             [@ EXCEPT !.currentQuestion = r.upd.currentQuestion,
                                       !.started = r.upd.started]]
                     ELSE quizzes
    /\ resp' = [op |-> "track_question_time", status |-> 200]
    /\ reqs' = [reqs EXCEPT ![p] = Idle]
    /\ UNCHANGED <<users, sessions, questions, nextSid, nextQid, deletedOk,
                   nextZid, submittedOk, evalFailed, study_materials, studyAux, otpVars, trackVars, parseVars, mailVars>>

\* requests of the quiz routes, with the session requests they depend on,
\* served one at a time
NextQuiz ==
    \/ \E u \in UserIds, pairs \in QuizPairSeqs :
          CreateInsertSession(1, MaxSideSessions, MaxSideQuestions, u, pairs)
    \/ \E p \in Procs : CreateInsertQuestion(p)
    \/ \E p \in Procs : CreateAttach(p)
    \/ \E u \in UserIds, sid \in SessionIds, n \in 1..MaxNumQ, out \in LlmQuizOutputs :
          GenerateQuiz(1, u, sid, n, out)
    \/ \E u \in UserIds, zid \in QuizIds, answers \in Submissions :
          SubmitFind(1, u, zid, answers)
    \/ \E p \in Procs, out \in LlmEvalOutputs : SubmitEvaluate(p, out)
    \/ \E p \in Procs : SubmitUpdate(p)
    \/ \E u \in UserIds, zid \in QuizIds : DeleteQuiz(1, u, zid)

SpecQuiz == Init /\ [][NextQuiz]_vars

\* submissions, time tracking and deletion of one quiz, served concurrently:
\* a request may be admitted while another one waits on a database or LLM call
NextQuizConc ==
    \/ \E pairs \in QuizPairSeqs :
          CreateInsertSession(1, MaxSideSessions, MaxSideQuestions, "alice", pairs)
    \/ \E p \in Procs : CreateInsertQuestion(p)
    \/ \E p \in Procs : CreateAttach(p)
    \/ \E sid \in SessionIds,
          out \in {o \in LlmQuizOutputs : o.kind = "list" /\ Len(o.items) = MaxNumQ} :
          GenerateQuiz(1, "alice", sid, MaxNumQ, out)
    \/ \E u \in UserIds, zid \in QuizIds, answers \in {<<0, 0>>, <<0, 3>>} :
          SubmitFind(MaxProcs, u, zid, answers)
    \/ \E p \in Procs, out \in LlmEvalOutputs : SubmitEvaluate(p, out)
    \/ \E p \in Procs : SubmitUpdate(p)
    \/ \E u \in UserIds, zid \in QuizIds, question_index \in {-1, 0, 1} :
          TrackFind(MaxProcs, u, zid, question_index)
    \/ \E p \in Procs : TrackUpdate(p)
    \/ \E u \in UserIds, zid \in QuizIds : DeleteQuiz(MaxProcs, u, zid)

SpecQuizConc == Init /\ [][NextQuizConc]_vars

\* session creation and deletion beside quiz generation, served one at a time
NextCascade ==
    \/ \E u \in UserIds, pairs \in QuizPairSeqs :
          CreateInsertSession(1, MaxSessions, MaxQuestions, u, pairs)
    \/ \E p \in Procs : CreateInsertQuestion(p)
    \/ \E p \in Procs : CreateAttach(p)
    \/ \E u \in UserIds, sid \in SessionIds : DeleteFind(1, u, sid)
    \/ \E p \in Procs : DeleteQuestions(p)
    \/ \E p \in Procs : DeleteSessionDoc(p)
    \/ \E u \in UserIds, sid \in SessionIds : AdminDelCheck(1, u, sid)
    \/ \E p \in Procs : AdminDelFind(p)
    \/ \E p \in Procs : AdminDelQuestions(p)
    \/ \E p \in Procs : AdminDelSessionDoc(p)
    \/ \E u \in UserIds, sid \in SessionIds, n \in 1..MaxNumQ, out \in LlmQuizOutputs :
          GenerateQuiz(1, u, sid, n, out)

SpecCascade == Init /\ [][NextCascade]_vars

\* ------------------------------------------------------------ study materials
Matching(qid, u) ==
    {m \in DOMAIN study_materials :
        study_materials[m].question_id = qid /\ study_materials[m].user_id = u}

\* the cache test: datetime.utcnow() - updated_at < timedelta(days=7)
IsFresh(doc, day) == day - doc.updated_at < FRESH_DAYS

StudyResp(status, u, qid, force, freshBefore, served, ran, wrote) ==
    [op |-> "get_or_create_study_materials", status |-> status, user |-> u,
     qid |-> qid, force |-> force, freshBefore |-> freshBefore, served |-> served,
     llm |-> ran, search |-> ran, wrote |-> wrote, day |-> today]

\* the whole handler; find_one and update_one without a sort act on any one of
\* the documents that match
GetOrCreate(lim, u, qid, force, outcome) ==
    \E p \in Procs :
        /\ Admit(lim, p)
        /\ Authenticated(u)
        /\ LET M == Matching(qid, u)
               freshBefore == \E m \in M : IsFresh(study_materials[m], today)
               doc == [question_id |-> qid, user_id |-> u, updated_at |-> today,
                       ai_model_used |-> outcome]
               reject(st) == /\ resp' = StudyResp(st, u, qid, force, freshBefore, 0, FALSE, FALSE)
                             /\ UNCHANGED <<study_materials, nextMid>>
           IN IF qid \notin DOMAIN questions THEN reject(404)
              ELSE IF questions[qid].session \notin DOMAIN sessions THEN reject(404)
              ELSE \E existing \in (IF force \/ M = {} THEN {0} ELSE M) :
                   IF existing # 0 /\ IsFresh(study_materials[existing], today)
                   THEN /\ resp' = StudyResp(200, u, qid, force, freshBefore, existing,
                                             FALSE, FALSE)
                        /\ UNCHANGED <<study_materials, nextMid>>
                   ELSE IF ~HasKey(u) THEN reject(400)
                   ELSE IF force /\ M # {}
                   THEN \* update_one(..., upsert=True) on an existing entry
                        \E target \in M :
                            /\ study_materials' = [study_materials EXCEPT ![target] = doc]
                            /\ resp' = StudyResp(200, u, qid, force, freshBefore, target,
                                                 TRUE, TRUE)
                            /\ UNCHANGED nextMid
                   ELSE \* insert_one, or the upsert that finds nothing
                        /\ nextMid <= MaxMaterials
                        /\ study_materials' = Insert(study_materials, nextMid, doc)
                        /\ nextMid' = nextMid + 1
                        /\ resp' = StudyResp(200, u, qid, force, freshBefore, nextMid,
                                             TRUE, TRUE)
        /\ UNCHANGED <<users, sessions, questions, nextSid, nextQid, reqs, deletedOk,
                       quizVars, today, otpVars, trackVars, parseVars, mailVars>>

\* refresh_study_materials: the whole handler
RefreshMaterial(lim, u, mid, outcome) ==
    \E p \in Procs :
        /\ Admit(lim, p)
        /\ Authenticated(u)
        /\ IF mid \notin DOMAIN study_materials \/ study_materials[mid].user_id # u
           THEN /\ resp' = [op |-> "refresh_study_materials", status |-> 404]
                /\ UNCHANGED study_materials
           ELSE IF ~HasKey(u)
           THEN /\ resp' = [op |-> "refresh_study_materials", status |-> 400]
                /\ UNCHANGED study_materials
           ELSE /\ study_materials' = [study_materials EXCEPT
                                          ![mid].updated_at = today,
                                          ![mid].ai_model_used = outcome]
                /\ resp' = [op |-> "refresh_study_materials", status |-> 200]
        /\ UNCHANGED <<users, sessions, questions, nextSid, nextQid, reqs, deletedOk,
                       quizVars, studyAux, otpVars, trackVars, parseVars, mailVars>>

\* delete_study_materials: the whole handler
DeleteMaterial(lim, u, mid) ==
    \E p \in Procs :
        /\ Admit(lim, p)
        /\ Authenticated(u)
        /\ IF mid \notin DOMAIN study_materials \/ study_materials[mid].user_id # u
           THEN /\ resp' = [op |-> "delete_study_materials", status |-> 404]
                /\ UNCHANGED study_materials
           ELSE /\ study_materials' = Delete(study_materials, {m \in DOMAIN study_materials : m = mid})
                /\ resp' = [op |-> "delete_study_materials", status |-> 200]
        /\ UNCHANGED <<users, sessions, questions, nextSid, nextQid, reqs, deletedOk,
                       quizVars, studyAux, otpVars, trackVars, parseVars, mailVars>>

\* time passes until the next day on which a request arrives
TickDay ==
    /\ \E d \in RequestDays : d > today
    /\ today' = CHOOSE d \in RequestDays : d > today /\ \A e \in RequestDays : e > today => d <= e
    /\ UNCHANGED <<users, sessions, questions, nextSid, nextQid, reqs, resp, deletedOk,
                   quizVars, study_materials, nextMid, otpVars, trackVars, parseVars, mailVars>>

\* requests of the study-material routes, with the session requests they
\* depend on, served one at a time
NextStudy ==
    \/ \E u \in UserIds, pairs \in QuizPairSeqs :
          CreateInsertSession(1, MaxSideSessions, MaxSideQuestions, u, pairs)
    \/ \E p \in Procs : CreateInsertQuestion(p)
    \/ \E p \in Procs : CreateAttach(p)
    \/ \E u \in UserIds, sid \in SessionIds : DeleteFind(1, u, sid)
    \/ \E p \in Procs : DeleteQuestions(p)
    \/ \E p \in Procs : DeleteSessionDoc(p)
    \/ \E u \in UserIds, qid \in QuestionIds, force \in BOOLEAN, outcome \in PipelineOutcomes :
          GetOrCreate(1, u, qid, force, outcome)
    \/ \E u \in UserIds, mid \in MaterialIds, outcome \in PipelineOutcomes :
          RefreshMaterial(1, u, mid, outcome)
    \/ \E u \in UserIds, mid \in MaterialIds : DeleteMaterial(1, u, mid)
    \/ TickDay

SpecStudy == Init /\ [][NextStudy]_vars

\* admin_delete_user beside the requests that create a user's sessions,
\* questions and study materials, served one at a time
NextUserDelete ==
    \/ \E u \in UserIds, pairs \in PairSeqs :
          CreateInsertSession(1, MaxSessions, MaxQuestions, u, pairs)
    \/ \E p \in Procs : CreateInsertQuestion(p)
    \/ \E p \in Procs : CreateAttach(p)
    \/ \E u \in UserIds, qid \in QuestionIds, force \in BOOLEAN, outcome \in PipelineOutcomes :
          GetOrCreate(1, u, qid, force, outcome)
    \/ \E u \in UserIds, uid \in UserIds : AduCheck(1, u, uid)
    \/ \E p \in Procs : AduFindUser(p)
    \/ \E p \in Procs : AduFindSessions(p)
    \/ \E p \in Procs : AduDeleteQuestions(p)
    \/ \E p \in Procs : AduDeleteMaterials(p)
    \/ \E p \in Procs : AduDeleteSessions(p)
    \/ \E p \in Procs : AduDeleteUser(p)

SpecUserDelete == Init /\ [][NextUserDelete]_vars

\* ----------------------------------------------------------- password reset
\* the block test of forgot_password and verify_reset_otp: blockedUntil is set
\* and now < blocked_until
Blocked(rec, t) == rec.exists /\ rec.blockedUntil # None /\ t < rec.blockedUntil

\* the counter has to pass MAX_ATTEMPTS
AttemptsExceeded(attempts) == attempts > MAX_ATTEMPTS

\* attempts >= MAX_ATTEMPTS
AttemptsExhausted(attempts) == attempts >= MAX_ATTEMPTS

\* the record stays in the collection
KeepRecord(coll, a) == coll

\* reset_otps.delete_one({"_id": record["_id"]})
DeleteRecord(coll, a) == [coll EXCEPT ![a] = NoRecord]

OtpResp(op, status, email, otp) ==
    [op |-> op, status |-> status, email |-> email, otp |-> otp]

\* forgot_password: the whole handler; otp is what generate_otp() returns
ForgotPassword(email, otp) ==
    /\ reqs = [p \in Procs |-> Idle]
    /\ IF email \notin DOMAIN users
       THEN /\ resp' = OtpResp("forgot_password", 404, email, "-")
            /\ UNCHANGED <<reset_otps, otpHist>>
       ELSE IF Blocked(reset_otps[email], now)
       THEN /\ resp' = OtpResp("forgot_password", 429, email, "-")
            /\ UNCHANGED <<reset_otps, otpHist>>
       ELSE /\ reset_otps' = [reset_otps EXCEPT ![email] =
                                [exists |-> TRUE, otp |-> Hash(otp),
                                 expiresAt |-> now + OTP_EXPIRY,
                                 attempts |-> 0, blockedUntil |-> None]]
            /\ otpHist' = [otpHist EXCEPT ![email] =
                             [streak |-> 0, lastBad |-> 0, consumed |-> FALSE, code |-> otp,
                              verified |-> FALSE]]
            /\ resp' = OtpResp("forgot_password", 200, email, "-")
    /\ UNCHANGED <<users, sessions, questions, nextSid, nextQid, reqs, deletedOk,
                   quizVars, study_materials, studyAux, passwords, now, trackVars, parseVars, mailVars>>

\* verify_reset_otp: the whole handler
VerifyResetOtp(email, otp) ==
    /\ reqs = [p \in Procs |-> Idle]
    /\ IF email \notin DOMAIN reset_otps \/ ~reset_otps[email].exists
       THEN /\ resp' = OtpResp("verify_reset_otp", 400, email, otp)
            /\ UNCHANGED <<reset_otps, otpHist>>
       ELSE IF Blocked(reset_otps[email], now)
       THEN /\ resp' = OtpResp("verify_reset_otp", 429, email, otp)
            /\ UNCHANGED <<reset_otps, otpHist>>
       ELSE IF ~verify_password(otp, reset_otps[email].otp)
       THEN LET attempts == reset_otps[email].attempts + 1
            IN /\ reset_otps' = [reset_otps EXCEPT
                                    ![email].attempts = attempts,
                                    ![email].blockedUntil =
                                        IF AttemptsExhausted(attempts)
                                        THEN now + BLOCK_DURATION ELSE @]
               /\ otpHist' = [otpHist EXCEPT ![email].streak = @ + 1,
                                             ![email].lastBad = now]
               /\ resp' = OtpResp("verify_reset_otp", 400, email, otp)
       ELSE /\ resp' = OtpResp("verify_reset_otp", 200, email, otp)
            /\ otpHist' = [otpHist EXCEPT ![email].streak = 0,
                                          ![email].verified = TRUE]
            /\ UNCHANGED reset_otps
    /\ UNCHANGED <<users, sessions, questions, nextSid, nextQid, reqs, deletedOk,
                   quizVars, study_materials, studyAux, passwords, now, trackVars, parseVars, mailVars>>

\* reset_password: the whole handler; user["password"] of a missing user and
\* record["_id"] of a missing record raise TypeError, answered with 500
ResetPassword(email, newPassword) ==
    /\ reqs = [p \in Procs |-> Idle]
    /\ IF email \notin DOMAIN users
       THEN /\ resp' = OtpResp("reset_password", 500, email, "-")
            /\ UNCHANGED <<passwords, reset_otps, otpHist>>
       ELSE IF verify_password(newPassword, passwords[email])
       THEN /\ resp' = OtpResp("reset_password", 400, email, "-")
            /\ UNCHANGED <<passwords, reset_otps, otpHist>>
       ELSE /\ passwords' = [passwords EXCEPT ![email] = Hash(newPassword)]
            /\ IF ~reset_otps[email].exists
               THEN /\ resp' = OtpResp("reset_password", 500, email, "-")
                    /\ UNCHANGED <<reset_otps, otpHist>>
               ELSE /\ reset_otps' = DeleteRecord(reset_otps, email)
                    /\ otpHist' = [otpHist EXCEPT ![email].streak = 0,
                                                  ![email].consumed = TRUE]
                    /\ resp' = OtpResp("reset_password", 200, email, "-")
    /\ UNCHANGED <<users, sessions, questions, nextSid, nextQid, reqs, deletedOk,
                   quizVars, study_materials, studyAux, now, trackVars, parseVars, mailVars>>

\* time passes until the next minute at which a request arrives
TickMinute ==
    /\ \E t \in RequestMinutes : t > now
    /\ now' = CHOOSE t \in RequestMinutes :
                  t > now /\ \A e \in RequestMinutes : e > now => t <= e
    /\ UNCHANGED <<users, sessions, questions, nextSid, nextQid, reqs, resp, deletedOk,
                   quizVars, study_materials, studyAux, passwords, reset_otps, otpHist, trackVars, parseVars, mailVars>>

\* requests of the password-reset routes, served one at a time
NextOtp ==
    \/ \E email \in Emails, otp \in OtpCodes : ForgotPassword(email, otp)
    \/ \E email \in Emails, otp \in OtpCodes : VerifyResetOtp(email, otp)
    \/ \E email \in Emails, newPassword \in Passwords : ResetPassword(email, newPassword)
    \/ TickMinute

SpecOtp == Init /\ [][NextOtp]_vars

\* ------------------------------------------------------------- API keys
KeyResp(op, status, key) == [op |-> op, status |-> status, key |-> key]

\* the masked key of the profile responses: mask_key(decrypt(gemini_key))
MaskedStored(u) ==
    IF users[u].geminiApiKey[1] = "enc"
    THEN mask_key(decrypt(users[u].geminiApiKey)) ELSE NoKeyShown

\* the key in the user object the admin handlers return: the decrypted key,
\* or "" when the field is missing or None
DecryptedStored(doc) ==
    IF doc.geminiApiKey[1] = "enc" THEN Plain(decrypt(doc.geminiApiKey)) ELSE NoKeyShown

\* the frame of the key handlers
KeyFrame ==
    UNCHANGED <<sessions, questions, nextSid, nextQid, reqs, deletedOk,
                quizVars, study_materials, studyAux, reset_otps, now, otpHist, trackVars, parseVars, mailVars>>

\* register_user: the whole handler; valid: the outcome of client.models.list()
RegisterUser(email, key, valid) ==
    /\ InFlight = {}
    /\ IF email \in DOMAIN users
       THEN /\ resp' = KeyResp("register_user", 400, NoKeyShown)
            /\ UNCHANGED <<users, passwords>>
       ELSE IF key \in KeyTexts /\ ~valid
       THEN /\ resp' = KeyResp("register_user", 400, NoKeyShown)
            /\ UNCHANGED <<users, passwords>>
       ELSE /\ users' = Insert(users, email,
                               [role |-> "user",
                                geminiApiKey |-> IF key \in KeyTexts THEN encrypt(key)
                                                 ELSE NoKeyField])
            /\ passwords' = [u \in DOMAIN passwords \cup {email} |->
                                IF u = email THEN Hash("p1") ELSE passwords[u]]
            /\ resp' = KeyResp("register_user", 200,
                               IF key \in KeyTexts THEN mask_key(key) ELSE NoKeyShown)
    /\ KeyFrame

\* login_user and get_profile answer with the same key fields
GetProfile(u) ==
    /\ InFlight = {}
    /\ Authenticated(u)
    /\ resp' = KeyResp("get_profile", 200, MaskedStored(u))
    /\ UNCHANGED <<users, passwords>>
    /\ KeyFrame

\* save_key: the whole handler; an empty key never passes the validation call
SaveKey(u, key, valid) ==
    /\ InFlight = {}
    /\ Authenticated(u)
    /\ IF ~valid \/ key = ""
       THEN /\ resp' = KeyResp("save_key", 400, NoKeyShown)
            /\ UNCHANGED users
       ELSE /\ users' = [users EXCEPT ![u].geminiApiKey = encrypt(key)]
            /\ resp' = KeyResp("save_key", 200, mask_key(key))
    /\ UNCHANGED passwords
    /\ KeyFrame

\* delete_key: $unset geminiApiKey
DeleteKey(u) ==
    /\ InFlight = {}
    /\ Authenticated(u)
    /\ users' = [users EXCEPT ![u].geminiApiKey = NoKeyField]
    /\ resp' = KeyResp("delete_key", 200, NoKeyShown)
    /\ UNCHANGED passwords
    /\ KeyFrame

\* admin_create_user: the whole handler
AdminCreateUser(cur, email, key, valid) ==
    /\ InFlight = {}
    /\ Authenticated(cur)
    /\ IF ~IsAdmin(cur)
       THEN /\ resp' = KeyResp("admin_create_user", 403, NoKeyShown)
            /\ UNCHANGED <<users, passwords>>
       ELSE IF email \in DOMAIN users
       THEN /\ resp' = KeyResp("admin_create_user", 400, NoKeyShown)
            /\ UNCHANGED <<users, passwords>>
       ELSE IF key \in KeyTexts /\ ~valid
       THEN /\ resp' = KeyResp("admin_create_user", 400, NoKeyShown)
            /\ UNCHANGED <<users, passwords>>
       ELSE /\ users' = Insert(users, email,
                               [role |-> "user",
                                geminiApiKey |-> IF key \in KeyTexts THEN encrypt(key)
                                                 ELSE NoKeyField])
            /\ passwords' = [u \in DOMAIN passwords \cup {email} |->
                                IF u = email THEN Hash("p1") ELSE passwords[u]]
            /\ resp' = KeyResp("admin_create_user", 200,
                               IF key \in KeyTexts THEN mask_key(key) ELSE NoKeyShown)
    /\ KeyFrame

\* admin_update_user: the whole handler, for a body that carries role and
\* geminiApiKey; the response holds the updated user document with the key
\* decrypted
AdminUpdateUser(cur, uid, role, key, valid) ==
    /\ InFlight = {}
    /\ Authenticated(cur)
    /\ LET reject(st) == /\ resp' = KeyResp("admin_update_user", st, NoKeyShown)
                         /\ UNCHANGED users
           newRole == IF role = "none" THEN users[uid].role ELSE role
           newKey == IF key = "none" THEN users[uid].geminiApiKey
                     ELSE IF key = "" THEN NullKey
                     ELSE encrypt(key)
           updated == [role |-> newRole, geminiApiKey |-> newKey]
       IN IF ~IsAdmin(cur) THEN reject(403)
          ELSE IF uid = cur THEN reject(400)
          ELSE IF uid \notin DOMAIN users THEN reject(404)
          ELSE IF role \notin {"none", "user", "admin", "moderator"} THEN reject(400)
          ELSE IF key \in KeyTexts /\ ~valid THEN reject(400)
          ELSE /\ users' = [users EXCEPT ![uid] = updated]
               /\ resp' = KeyResp("admin_update_user", 200, DecryptedStored(updated))
    /\ UNCHANGED passwords
    /\ KeyFrame

\* get_admin_user_details: the whole handler
GetAdminUserDetails(cur, uid) ==
    /\ InFlight = {}
    /\ Authenticated(cur)
    /\ resp' = IF ~IsAdmin(cur) THEN KeyResp("get_admin_user_details", 403, NoKeyShown)
               ELSE IF uid \notin DOMAIN users
               THEN KeyResp("get_admin_user_details", 404, NoKeyShown)
               ELSE KeyResp("get_admin_user_details", 200, DecryptedStored(users[uid]))
    /\ UNCHANGED <<users, passwords>>
    /\ KeyFrame

\* requests of the routes that read or write a user's API key, served one at
\* a time
NextKey ==
    \/ \E email \in RegEmails, key \in KeyInputs, valid \in BOOLEAN :
          RegisterUser(email, key, valid)
    \/ \E u \in UserIds \cup RegEmails : GetProfile(u)
    \/ \E u \in UserIds \cup RegEmails, key \in KeyTexts \cup {""}, valid \in BOOLEAN :
          SaveKey(u, key, valid)
    \/ \E u \in UserIds \cup RegEmails : DeleteKey(u)
    \/ \E cur \in UserIds, email \in RegEmails, key \in KeyInputs, valid \in BOOLEAN :
          AdminCreateUser(cur, email, key, valid)
    \/ \E cur \in UserIds, uid \in UserIds \cup RegEmails, role \in RoleInputs,
          key \in KeyInputs, valid \in BOOLEAN :
          AdminUpdateUser(cur, uid, role, key, valid)
    \/ \E cur \in UserIds, uid \in UserIds \cup RegEmails : GetAdminUserDetails(cur, uid)

SpecKey == Init /\ [][NextKey]_vars

\* ------------------------------------------------- the email of a user
MailResp(op, status) == [op |-> op, status |-> status]

\* users.find_one({"email": email, "_id": {"$ne": id}}) finds a document;
\* except = {} for the lookup by email alone
EmailTaken(email, except) == \E a \in DOMAIN emails \ except : emails[a] = email

\* fresh ObjectIds are left for the inserts admitted so far
RoomForUsers ==
    nextUid + Cardinality({p \in Procs : reqs[p].pc \in {"reg_insert", "acu_insert"}})
        <= MaxNewUsers

MailFrame ==
    UNCHANGED <<users, sessions, questions, nextSid, nextQid, deletedOk,
                quizVars, study_materials, studyAux, otpVars, trackVars, parseVars>>

\* register_user up to the insert: find_one by email, then the validation of
\* a key given at signup (keyOk: no key was given or client.models.list()
\* accepted it)
RegFind(lim, email, keyOk) ==
    \E p \in Procs :
        /\ Admit(lim, p)
        /\ RoomForUsers
        /\ IF EmailTaken(email, {}) \/ ~keyOk
           THEN /\ resp' = MailResp("register_user", 400)
                /\ UNCHANGED reqs
           ELSE /\ reqs' = [reqs EXCEPT ![p] =
                              [Idle EXCEPT !.op = "register_user", !.pc = "reg_insert",
                                           !.upd = <<email>>]]
                /\ UNCHANGED resp
        /\ UNCHANGED mailVars
        /\ MailFrame

\* users.insert_one(new_user), then the response
RegInsert(p) ==
    /\ reqs[p].pc = "reg_insert"
    /\ emails' = Insert(emails, NewUserIds[nextUid], reqs[p].upd[1])
    /\ nextUid' = nextUid + 1
    /\ resp' = MailResp("register_user", 200)
    /\ reqs' = [reqs EXCEPT ![p] = Idle]
    /\ MailFrame

\* admin_create_user up to the insert: check_admin_access, find_one by
\* email, the validation of the key
AcuFind(lim, cur, email, keyOk) ==
    \E p \in Procs :
        /\ Admit(lim, p)
        /\ RoomForUsers
        /\ Authenticated(cur)
        /\ IF ~IsAdmin(cur)
           THEN /\ resp' = MailResp("admin_create_user", 403)
                /\ UNCHANGED reqs
           ELSE IF EmailTaken(email, {}) \/ ~keyOk
           THEN /\ resp' = MailResp("admin_create_user", 400)
                /\ UNCHANGED reqs
           ELSE /\ reqs' = [reqs EXCEPT ![p] =
                              [Idle EXCEPT !.op = "admin_create_user", !.pc = "acu_insert",
                                           !.user = cur, !.upd = <<email>>]]
                /\ UNCHANGED resp
        /\ UNCHANGED mailVars
        /\ MailFrame

\* users.insert_one(user_doc), the created document read back, the response
AcuInsert(p) ==
    /\ reqs[p].pc = "acu_insert"
    /\ emails' = Insert(emails, NewUserIds[nextUid], reqs[p].upd[1])
    /\ nextUid' = nextUid + 1
    /\ resp' = MailResp("admin_create_user", 200)
    /\ reqs' = [reqs EXCEPT ![p] = Idle]
    /\ MailFrame

\* update_profile: users.find_one({_id}) of the caller; email = "none" when
\* the body carries no email
UpdFind(lim, u, email) ==
    \E p \in Procs :
        /\ Admit(lim, p)
        /\ IF u \notin DOMAIN emails
           THEN /\ resp' = MailResp("update_profile", 404)
                /\ UNCHANGED reqs
           ELSE /\ reqs' = [reqs EXCEPT ![p] =
                              [Idle EXCEPT !.op = "update_profile", !.uid = u,
                                           !.pc = IF email # "none" /\ email # emails[u]
                                                  THEN "upd_check" ELSE "upd_write",
                                           !.upd = IF email # "none" /\ email # emails[u]
                                                   THEN <<email>> ELSE <<>>]]
                /\ UNCHANGED resp
        /\ UNCHANGED mailVars
        /\ MailFrame

\* update_profile: the lookup of another document with the new email
UpdCheck(p) ==
    /\ reqs[p].pc = "upd_check"
    /\ IF EmailTaken(reqs[p].upd[1], {reqs[p].uid})
       THEN /\ resp' = MailResp("update_profile", 400)
            /\ reqs' = [reqs EXCEPT ![p] = Idle]
       ELSE /\ reqs' = [reqs EXCEPT ![p].pc = "upd_write"]
            /\ UNCHANGED resp
    /\ UNCHANGED mailVars
    /\ MailFrame

\* update_profile: users.update_one({_id}, {$set: update_fields}), the
\* document read back, the response
UpdWrite(p) ==
    /\ reqs[p].pc = "upd_write"
    /\ emails' = IF reqs[p].uid \in DOMAIN emails /\ reqs[p].upd # <<>>
                 THEN [emails EXCEPT ![reqs[p].uid] = reqs[p].upd[1]]
                 ELSE emails
    /\ resp' = MailResp("update_profile", 200)
    /\ reqs' = [reqs EXCEPT ![p] = Idle]
    /\ UNCHANGED nextUid
    /\ MailFrame

\* admin_update_user: check_admin_access, the test for the admin's own id,
\* users.find_one({_id}); bodyOk: the role is an allowed one and the key, if
\* one is given, passes its validation (both tested after the email)
AuuFind(lim, cur, uid, email, bodyOk) ==
    \E p \in Procs :
        /\ Admit(lim, p)
        /\ Authenticated(cur)
        /\ LET reject(st) == /\ resp' = MailResp("admin_update_user", st)
                             /\ UNCHANGED reqs
               r == [Idle EXCEPT !.op = "admin_update_user", !.user = cur, !.uid = uid]
           IN IF ~IsAdmin(cur) THEN reject(403)
              ELSE IF uid = cur THEN reject(400)
              ELSE IF uid \notin DOMAIN emails THEN reject(404)
              ELSE IF email # "none" /\ email # emails[uid]
              THEN /\ reqs' = [reqs EXCEPT ![p] =
                                 [r EXCEPT !.pc = "auu_check", !.upd = <<email>>,
                                           !.after = bodyOk]]
                   /\ UNCHANGED resp
              ELSE IF ~bodyOk THEN reject(400)
              ELSE /\ reqs' = [reqs EXCEPT ![p] = [r EXCEPT !.pc = "auu_write"]]
                   /\ UNCHANGED resp
        /\ UNCHANGED mailVars
        /\ MailFrame

\* admin_update_user: the lookup of another document with the new email,
\* then the tests of the role and the key
AuuCheck(p) ==
    /\ reqs[p].pc = "auu_check"
    /\ IF EmailTaken(reqs[p].upd[1], {reqs[p].uid}) \/ ~reqs[p].after
       THEN /\ resp' = MailResp("admin_update_user", 400)
            /\ reqs' = [reqs EXCEPT ![p] = Idle]
       ELSE /\ reqs' = [reqs EXCEPT ![p].pc = "auu_write", ![p].after = FALSE]
            /\ UNCHANGED resp
    /\ UNCHANGED mailVars
    /\ MailFrame

\* admin_update_user: users.update_one({_id}, {$set: update_fields}), the
\* document read back, the response
AuuWrite(p) ==
    /\ reqs[p].pc = "auu_write"
    /\ emails' = IF reqs[p].uid \in DOMAIN emails /\ reqs[p].upd # <<>>
                 THEN [emails EXCEPT ![reqs[p].uid] = reqs[p].upd[1]]
                 ELSE emails
    /\ resp' = MailResp("admin_update_user", 200)
    /\ reqs' = [reqs EXCEPT ![p] = Idle]
    /\ UNCHANGED nextUid
    /\ MailFrame

\* requests of the four handlers that write a user's email; lim of them are
\* in progress at a time
NextMail(lim) ==
    \/ \E email \in RegEmails, keyOk \in BOOLEAN : RegFind(lim, email, keyOk)
    \/ \E p \in Procs : RegInsert(p)
    \/ \E cur \in UserIds, email \in RegEmails, keyOk \in BOOLEAN :
          AcuFind(lim, cur, email, keyOk)
    \/ \E p \in Procs : AcuInsert(p)
    \/ \E u \in UserIds \cup RangeOf(NewUserIds), email \in RegEmails \cup {"none"} :
          UpdFind(lim, u, email)
    \/ \E p \in Procs : UpdCheck(p)
    \/ \E p \in Procs : UpdWrite(p)
    \/ \E cur \in UserIds, uid \in UserIds \cup RangeOf(NewUserIds),
          email \in RegEmails \cup {"none"}, bodyOk \in BOOLEAN :
          AuuFind(lim, cur, uid, email, bodyOk)
    \/ \E p \in Procs : AuuCheck(p)
    \/ \E p \in Procs : AuuWrite(p)

NextMailConc == NextMail(MaxProcs)

SpecMail == Init /\ [][NextMailConc]_vars

\* ------------------------------------------------ parse_gemini_json_response
\* str.strip()
Strip(text) ==
    LET idx == {i \in DOMAIN text : text[i] # " "}
    IN IF idx = {} THEN <<>>
       ELSE SubSeq(text, CHOOSE i \in idx : \A j \in idx : i <= j,
                         CHOOSE i \in idx : \A j \in idx : i >= j)

\* json.loads on a text of the alphabet: blanks between tokens are skipped; a
\* value is a string, {}, [] or an array of one value; the result is the
\* parsed value (its nesting depth and innermost value) or the parse error
Loads(text) ==
    LET t == SelectSeq(text, LAMBDA c : c # " ")
        n == Len(t)
        opens == {i \in 0..n : \A j \in 1..i : t[j] = "["}
        a == CHOOSE i \in opens : \A j \in opens : j <= i
        closed(from) == \A j \in from..n : t[j] = "]"
    IN IF a >= 1 /\ n = 2 * a /\ closed(a + 1)
       THEN [depth |-> a - 1, leaf |-> "arr"]
       ELSE IF n = 2 * a + 1 /\ t[a + 1] = "str" /\ closed(a + 2)
       THEN [depth |-> a, leaf |-> "str:escaped"]
       ELSE IF n = 2 * a + 2 /\ t[a + 1] = "{" /\ t[a + 2] = "}" /\ closed(a + 3)
       THEN [depth |-> a, leaf |-> "obj"]
       ELSE ParseError

\* _fix_escaped_newlines_in_parsed: in every string, the two characters of an
\* escaped newline become a newline
fix_escaped_newlines(data) ==
    IF data.leaf = "str:escaped" THEN [data EXCEPT !.leaf = "str:newline"] ELSE data

\* the removal of a leading fence with or without json and of a trailing fence
Unfence(text) ==
    LET head == IF Len(text) >= 2 /\ text[1] = "fence" /\ text[2] = "json"
                THEN Strip(SubSeq(text, 3, Len(text)))
                ELSE IF Len(text) >= 1 /\ text[1] = "fence"
                THEN Strip(Tail(text))
                ELSE text
    IN IF Len(head) >= 1 /\ head[Len(head)] = "fence"
       THEN Strip(SubSeq(head, 1, Len(head) - 1))
       ELSE head

\* re.search(pattern, text, re.DOTALL).group() for the three patterns, in
\* their order; <<>> where a pattern does not match
json_patterns(text) ==
    LET n == Len(text)
        nextInk(i) == LET later == {m \in (i + 1)..n : text[m] # " "}
                      IN IF later = {} THEN 0
                         ELSE CHOOSE m \in later : \A k \in later : m <= k
        ends(i) == {k \in (i + 1)..n : /\ text[k] = "}"
                                       /\ nextInk(k) # 0
                                       /\ text[nextInk(k)] = "]"}
        starts == {i \in 1..n : /\ text[i] = "["
                                /\ nextInk(i) # 0
                                /\ text[nextInk(i)] = "{"
                                /\ ends(nextInk(i)) # {}}
        span(open, close) ==
            LET os == {i \in 1..n : text[i] = open}
                cs == {i \in 1..n : text[i] = close}
            IN IF os # {} /\ cs # {}
               THEN LET first == CHOOSE i \in os : \A j \in os : i <= j
                        last == CHOOSE i \in cs : \A j \in cs : i >= j
                    IN IF first < last THEN SubSeq(text, first, last) ELSE <<>>
               ELSE <<>>
        objects == IF starts = {} THEN <<>>
                   ELSE LET i == CHOOSE x \in starts : \A y \in starts : x <= y
                            es == ends(nextInk(i))
                            k == CHOOSE x \in es : \A y \in es : x >= y
                        IN SubSeq(text, i, nextInk(k))
    IN <<objects, span("{", "}"), span("[", "]")>>

\* only the direct parse is tried
parse_direct_only(text, fix) ==
    LET raw == Strip(text)
        post(v) == IF fix THEN fix_escaped_newlines(v) ELSE v
    IN IF raw = <<>> THEN ParseError ELSE post(Loads(raw))

\* parse_gemini_json_response(response_text, fix_newlines)
parse_gemini_json_response(text, fix) ==
    LET raw == Strip(text)
        cleaned == Unfence(raw)
        post(v) == IF fix THEN fix_escaped_newlines(v) ELSE v
        found == json_patterns(cleaned)
        good == {i \in 1..3 : found[i] # <<>> /\ Loads(found[i]) # ParseError}
    IN IF raw = <<>> THEN ParseError
       ELSE IF Loads(raw) # ParseError THEN post(Loads(raw))
       ELSE IF Loads(cleaned) # ParseError THEN post(Loads(cleaned))
       ELSE IF good # {}
       THEN post(Loads(found[CHOOSE i \in good : \A j \in good : i <= j]))
       ELSE ParseError

\* one call of the parser
ParseResponse ==
    /\ parsed = Unparsed
    /\ parsed' = parse_gemini_json_response(response_text, fix_newlines)
    /\ UNCHANGED <<users, sessions, questions, nextSid, nextQid, reqs, resp, deletedOk,
                   quizVars, study_materials, studyAux, otpVars, trackVars,
                   response_text, fix_newlines, mailVars>>

SpecParse == InitParse /\ [][ParseResponse]_vars

\* ------------------------------------------------------------- AI handlers
\* kind "json": the handler returned a JSONResponse, raised an HTTPException or
\* returned its result; kind "unhandled": an exception left the handler
AiResp(op, status, kind, msg, llm, n) ==
    [op |-> op, status |-> status, kind |-> kind, msg |-> msg, llm |-> llm,
     calls |-> n]

\* the try/except around GeminiService.generate and the statement after it;
\* a ClientError without RESOURCE_EXHAUSTED leaves the except branch without a
\* return, and the statement after it reads the unbound result of the call
AfterGenerate(op, outcome) ==
    LET quota == IF op = "generate_questions_service"
                 THEN "Free-tier quota exceeded. Please try again later."
                 ELSE "Gemini API quota limit exceeded"
    IN CASE outcome = "ResourceExhausted" -> AiResp(op, 403, "json", quota, outcome, 1)
         [] outcome = "PermissionDenied" ->
                AiResp(op, 403, "json", "Invalid Gemini API key", outcome, 1)
         [] outcome = "ServerError" ->
                AiResp(op, 500, "json", "The model is overloaded. Please try again later.",
                       outcome, 1)
         [] outcome = "TooManyRequests" ->
                AiResp(op, 429, "json", "Too many requests. Please slow down and try again.",
                       outcome, 1)
         [] outcome = "ClientError:RESOURCE_EXHAUSTED" ->
                AiResp(op, 403, "json", "Free-tier quota exceeded. Please try again later.",
                       outcome, 1)
         [] outcome = "ClientError" -> AiResp(op, 500, "unhandled", "-", outcome, 1)
         [] outcome = "unparsable" /\ op # "ai_grammar_correct_service" ->
                AiResp(op, 500, "unhandled", "-", outcome, 1)
         [] OTHER -> AiResp(op, 200, "json", "-", outcome, 1)

\* the checks before the LLM call: the request body, then the user's key;
\* decrypt raises on a geminiApiKey field that holds None
AiService(op, u, bodyOk, outcome) ==
    /\ InFlight = {}
    /\ Authenticated(u)
    /\ resp' =
         LET key == users[u].geminiApiKey[1]
             checksBody == op \in {"generate_explanation_service", "followup_chat_service"}
         IN IF checksBody /\ ~bodyOk
            THEN AiResp(op, 400, "json", "Missing question", "-", 0)
            ELSE IF key = "absent"
            THEN AiResp(op, 400, "json", "Gemini API key not configured", "-", 0)
            ELSE IF key = "null" \/ (op = "generate_questions_service" /\ ~bodyOk)
            THEN AiResp(op, 500, "unhandled", "-", "-", 0)
            ELSE AfterGenerate(op, outcome)
    /\ UNCHANGED <<users, sessions, questions, nextSid, nextQid, reqs, deletedOk,
                   quizVars, study_materials, studyAux, otpVars, trackVars, parseVars, mailVars>>

GenerateQuestions(u, bodyOk, outcome) ==
    AiService("generate_questions_service", u, bodyOk, outcome)

GenerateExplanation(u, bodyOk, outcome) ==
    AiService("generate_explanation_service", u, bodyOk, outcome)

FollowupChat(u, bodyOk, outcome) ==
    AiService("followup_chat_service", u, bodyOk, outcome)

AiGrammarCorrect(u, outcome) ==
    AiService("ai_grammar_correct_service", u, TRUE, outcome)

\* requests of the AI routes beside the requests that set, clear or null a
\* user's key, served one at a time
NextAi ==
    \/ \E u \in UserIds, bodyOk \in BOOLEAN, outcome \in GeminiOutcomes :
          GenerateQuestions(u, bodyOk, outcome)
    \/ \E u \in UserIds, bodyOk \in BOOLEAN, outcome \in GeminiOutcomes :
          GenerateExplanation(u, bodyOk, outcome)
    \/ \E u \in UserIds, bodyOk \in BOOLEAN, outcome \in GeminiOutcomes :
          FollowupChat(u, bodyOk, outcome)
    \/ \E u \in UserIds, outcome \in GeminiOutcomes : AiGrammarCorrect(u, outcome)
    \/ \E u \in UserIds, key \in KeyTexts \cup {""}, valid \in BOOLEAN :
          SaveKey(u, key, valid)
    \/ \E u \in UserIds : DeleteKey(u)
    \/ \E cur \in UserIds, uid \in UserIds, role \in RoleInputs,
          key \in KeyInputs, valid \in BOOLEAN :
          AdminUpdateUser(cur, uid, role, key, valid)

SpecAi == Init /\ [][NextAi]_vars

\* ------------------------------------------------- request_tracker_middleware
\* the entry is appended only while the log is below the limit
track_request_drop_newest(history, entry) ==
    IF Len(history) + 1 > MaxHistory THEN history ELSE Append(history, entry)

\* track_request: append the entry, then drop the oldest one past the limit
track_request(history, entry) ==
    LET appended == Append(history, entry)
    IN IF Len(appended) > MaxHistory THEN Tail(appended) ELSE appended

TrackFrame ==
    UNCHANGED <<users, sessions, questions, nextSid, nextQid, reqs, resp, deletedOk,
                quizVars, study_materials, studyAux, otpVars, parseVars, mailVars>>

\* a request arrives and the middleware awaits call_next(request)
CallNext(p) ==
    /\ calls[p] = 0
    /\ nextRid <= MaxRequests
    /\ calls' = [calls EXCEPT ![p] = nextRid]
    /\ nextRid' = nextRid + 1
    /\ UNCHANGED <<_request_history, tracked>>
    /\ TrackFrame

\* call_next returns a response: track_request runs without yielding, then
\* the response is returned
TrackReturn(p, status_code) ==
    /\ calls[p] # 0
    /\ LET entry == [rid |-> calls[p], is_error |-> status_code >= 400]
       IN /\ _request_history' = track_request(_request_history, entry)
          /\ tracked' = Append(tracked, entry)
    /\ calls' = [calls EXCEPT ![p] = 0]
    /\ UNCHANGED nextRid
    /\ TrackFrame

\* call_next raises: the except branch tracks the request and re-raises
TrackRaise(p) ==
    /\ calls[p] # 0
    /\ LET entry == [rid |-> calls[p], is_error |-> TRUE]
       IN /\ _request_history' = track_request(_request_history, entry)
          /\ tracked' = Append(tracked, entry)
    /\ calls' = [calls EXCEPT ![p] = 0]
    /\ UNCHANGED nextRid
    /\ TrackFrame

\* requests passing through the middleware, served concurrently
NextTrack ==
    \/ \E p \in Procs : CallNext(p)
    \/ \E p \in Procs, status_code \in {200, 404} : TrackReturn(p, status_code)
    \/ \E p \in Procs : TrackRaise(p)

SpecTrack == Init /\ [][NextTrack]_vars

\* requests served one at a time
Next == NextSession(1, PairSeqs, MaxSessions, MaxQuestions)

Spec == Init /\ [][Next]_vars

\* requests served concurrently, interleaved at their awaited operations
NextConc == NextSession(MaxProcs, ConcPairSeqs, MaxConcSessions, MaxConcQuestions)

SpecConc == Init /\ [][NextConc]_vars

\* ===================================================================== claims

\* C1: when create_new_session has answered for a body of N pairs, exactly N
\* question documents have the new session in their session field, and the
\* session's questions array lists their ids in the order of the pairs.
C1_CreatePersists ==
    (InFlight = {} /\ resp.op = "create_new_session") =>
        LET S == resp.sid
            N == Len(resp.pairs)
        IN /\ S \in DOMAIN sessions
           /\ Len(sessions[S].questions) = N
           /\ \A i \in 1..N :
                 LET q == sessions[S].questions[i]
                 IN /\ q \in DOMAIN questions
                    /\ questions[q].session = S
                    /\ questions[q].question = resp.pairs[i]
           /\ Cardinality({q \in DOMAIN questions : questions[q].session = S}) = N
           /\ Cardinality(RangeOf(sessions[S].questions)) = N

C1_Witness ==
    /\ InFlight = {}
    /\ resp.op = "create_new_session"
    /\ Len(resp.pairs) = 2
    /\ resp.pairs[1] # resp.pairs[2]
    /\ Len(sessions[resp.sid].questions) = 2

\* C2: once delete_session or admin_delete_session has answered success for a
\* session, no question document and no quiz document references that session.
C2_NoOrphans ==
    \A s \in deletedOk :
        /\ \A q \in DOMAIN questions : questions[q].session # s
        /\ \A z \in DOMAIN quizzes : quizzes[z].sessionId # s

\* C3, as amended: a submission made after one succeeded for the same quiz is
\* rejected before the LLM is called and before anything is written: with 400
\* 'Quiz already submitted' when the caller owns the quiz, 403 when the caller
\* is another user, 404 when the quiz has been deleted; and the quiz document
\* stays what the successful submission wrote.
C3_SubmitOnce ==
    /\ \A z \in DOMAIN submittedOk :
          z \in DOMAIN quizzes => quizzes[z] = submittedOk[z]
    /\ (resp.op = "submit_quiz" /\ resp.after) =>
          /\ ~resp.wrote
          /\ ~resp.llm
          /\ resp.status \in {400, 403, 404}
          /\ resp.status = 400 => resp.msg = "Quiz already submitted"
          /\ resp.status = 404 => resp.zid \notin DOMAIN quizzes
          /\ (resp.zid \in DOMAIN quizzes /\ quizzes[resp.zid].userId = resp.user)
                => resp.status = 400
          /\ (resp.zid \in DOMAIN quizzes /\ quizzes[resp.zid].userId # resp.user)
                => resp.status = 403

C3_Witness ==
    /\ resp.op = "submit_quiz"
    /\ resp.after
    /\ resp.status = 400
    /\ resp.zid \in DOMAIN quizzes
    /\ quizzes[resp.zid].status = "completed"

\* C3, as stated: every submission made after one succeeded for the same quiz
\* is answered 400 'Quiz already submitted' and writes nothing.
C3_AlwaysAlreadySubmitted ==
    (resp.op = "submit_quiz" /\ resp.after) =>
        /\ resp.status = 400
        /\ resp.msg = "Quiz already submitted"
        /\ ~resp.wrote

\* C4: no submission gets past the checks, to the LLM call or to the write,
\* unless its answers list is as long as the quiz's totalQuestions and every
\* answer is one of the option positions 0..3.
C4_BadRejected ==
    \A p \in Procs :
        reqs[p].pc \in {"submit_llm", "submit_update"} =>
            /\ Len(reqs[p].answers) = reqs[p].doc.totalQuestions
            /\ \A i \in DOMAIN reqs[p].answers : reqs[p].answers[i] \in 0..3

\* C5: a call without force_refresh, for a question and session that exist,
\* made while an entry of (question, user) is less than 7 days old, is answered
\* from the cache: 200, no LLM call, no search call, no write.
C5_FreshServed ==
    (/\ resp.op = "get_or_create_study_materials"
     /\ ~resp.force
     /\ resp.freshBefore
     /\ resp.status # 404) =>
        /\ resp.status = 200
        /\ resp.served # 0
        /\ ~resp.llm
        /\ ~resp.search
        /\ ~resp.wrote

\* C6: right after a call that ran the pipeline, every entry stored for
\* (question, user) carries the regenerated content with updated_at of the
\* call, so that the next access within 7 days is served from it.
C6_Regenerated ==
    (/\ resp.op = "get_or_create_study_materials"
     /\ resp.status = 200
     /\ resp.llm
     /\ resp.day = today) =>
        /\ Matching(resp.qid, resp.user) # {}
        /\ \A m \in Matching(resp.qid, resp.user) :
              study_materials[m].updated_at = today

C8_Consumed ==
    [][\A a \in DOMAIN otpHist :
          /\ otpHist'[a].consumed => ~reset_otps'[a].exists
          /\ (/\ now' = now
              /\ resp'.op = "verify_reset_otp"
              /\ resp'.email = a
              /\ resp'.otp = otpHist[a].code
              /\ otpHist[a].consumed) =>
                /\ resp'.status = 400
                /\ reset_otps' = reset_otps]_vars

C8_Witness ==
    /\ resp.op = "verify_reset_otp"
    /\ resp.email = "alice"
    /\ resp.otp = otpHist["alice"].code
    /\ otpHist["alice"].consumed
    /\ resp.status = 400

\* C9: every question document's session field is the id of a session
\* document that exists.
C9_QuestionHasSession ==
    \A q \in DOMAIN questions : questions[q].session \in DOMAIN sessions

\* C10: in every quiz document the userAnswers array is as long as
\* totalQuestions says.
C10_AnswersMatchTotal ==
    \A z \in DOMAIN quizzes :
        Len(quizzes[z].userAnswers) = quizzes[z].totalQuestions

\* C11: no user document holds an API key in plaintext, and no response of
\* the handlers that read or write the key carries the key in plaintext.
C11_NoPlaintextKey ==
    /\ \A u \in DOMAIN users : users[u].geminiApiKey[1] \in {"absent", "null", "enc"}
    /\ resp.op \in {"register_user", "get_profile", "save_key", "delete_key",
                    "admin_create_user", "admin_update_user", "get_admin_user_details"}
          => resp.key[1] \in {"none", "mask"}

\* C12: a step never changes a field of a quiz document whose status is
\* completed; it may only delete the document.
C12_CompletedFrozen ==
    [][\A z \in DOMAIN quizzes :
          quizzes[z].status = "completed" /\ z \in DOMAIN quizzes'
              => quizzes'[z] = quizzes[z]]_vars

\* C13: the study_materials collection never holds two documents with the
\* same question_id and the same user_id.
C13_OnePerPair ==
    \A a, b \in DOMAIN study_materials :
        (/\ study_materials[a].question_id = study_materials[b].question_id
         /\ study_materials[a].user_id = study_materials[b].user_id) => a = b

\* C17: no get_or_create_study_materials step inserts or updates a cache entry
\* with the search-only result produced when the LLM step failed.
C17_NoDegradedWrite ==
    [][resp'.op = "get_or_create_study_materials" =>
          \A m \in DOMAIN study_materials' :
              (m \notin DOMAIN study_materials \/ study_materials'[m] # study_materials[m])
                  => study_materials'[m].ai_model_used # "tavily_search_fallback"]_vars

C15_RequestLog ==
    /\ Len(_request_history) <= MaxHistory
    /\ LET n == Len(tracked)
           k == IF n > MaxHistory THEN MaxHistory ELSE n
       IN _request_history = SubSeq(tracked, n - k + 1, n)
    /\ \A rid \in 1..(nextRid - 1) :
          Cardinality({i \in DOMAIN tracked : tracked[i].rid = rid})
              = IF \E p \in Procs : calls[p] = rid THEN 0 ELSE 1

\* more requests than the log keeps were tracked, one that raised or failed
\* among them, and two of them finished in the opposite order of their arrival
C15_Witness ==
    /\ Len(tracked) > MaxHistory
    /\ \E i \in DOMAIN tracked : tracked[i].is_error
    /\ \E i \in DOMAIN tracked : i > 1 /\ tracked[i].rid < tracked[i - 1].rid
    /\ _request_history[MaxHistory] = tracked[Len(tracked)]

\* C16: when the LLM call of one of the four AI handlers raised an upstream
\* error, the handler called the LLM once and answered with a JSON error
\* response whose status is 400, 403, 429 or 500 and whose message is fixed.
C16_UpstreamErrorAnswered ==
    (/\ resp.op \in {"generate_questions_service", "generate_explanation_service",
                     "followup_chat_service", "ai_grammar_correct_service"}
     /\ resp.llm \in LlmErrors)
        => /\ resp.kind = "json"
           /\ resp.status \in {400, 403, 429, 500}
           /\ resp.msg # "-"
           /\ resp.calls = 1

\* C18: a generate_quiz_service step inserts a quiz only for an existing
\* session that has questions and only with items that all have the four
\* fields, 4 options and correctAnswer in 0..3; a step that inserts no quiz
\* answers with an error, and a step that answers with an error inserts none.
C18_QuizOnlyFromValidList ==
    [][(/\ reqs' = reqs
        /\ resp'.op = "generate_quiz"
        /\ (resp' # resp \/ quizzes' # quizzes))
          => LET new == DOMAIN quizzes' \ DOMAIN quizzes
             IN /\ \A z \in new :
                      /\ \A i \in DOMAIN quizzes'[z].questions :
                            /\ quizzes'[z].questions[i].hasFields
                            /\ quizzes'[z].questions[i].numOptions = 4
                            /\ quizzes'[z].questions[i].correctAnswer \in 0..3
                      /\ quizzes'[z].sessionId \in DOMAIN sessions
                      /\ \E q \in DOMAIN questions :
                            questions[q].session = quizzes'[z].sessionId
                /\ new # {} <=> resp'.status = 200
                /\ new = {} => resp'.status \in {400, 404, 500} /\ quizzes' = quizzes]_vars

\* a quiz was generated from a list of valid items
C18_Witness ==
    /\ resp.op = "generate_quiz" /\ resp.status = 200
    /\ \E z \in DOMAIN quizzes : Len(quizzes[z].questions) = MaxNumQ

\* C19: when the LLM evaluation holds no score, submit_quiz_service goes on to
\* its update with score equal to the number of positions at which the answer
\* equals the stored correctAnswer and total equal to the number of questions
\* of the quiz, and the update writes these values to the quiz.
C19_FallbackScore ==
    [][/\ \A p \in Procs, out \in LlmEvalOutputs :
            (out.kind = "dict" /\ out.score = None /\ SubmitEvaluate(p, out))
                => LET qs == reqs[p].doc.questions
                       answers == reqs[p].answers
                   IN /\ reqs'[p].pc = "submit_update"
                      /\ reqs'[p].upd.score =
                            Cardinality({i \in 1..Len(qs) :
                                            /\ i <= Len(answers)
                                            /\ answers[i] = qs[i].correctAnswer})
                      /\ reqs'[p].upd.totalQuestions = Len(qs)
       /\ \A p \in Procs :
            (SubmitUpdate(p) /\ reqs[p].zid \in DOMAIN quizzes)
                => /\ quizzes'[reqs[p].zid].score = reqs[p].upd.score
                   /\ quizzes'[reqs[p].zid].totalQuestions = reqs[p].upd.totalQuestions]_vars

\* C20: parse_gemini_json_response raises for a text that is empty once
\* trimmed; otherwise it returns the parse of the trimmed text if that parses,
\* else the parse of the text without its code fences if that parses, else
\* the parse of a stretch of the text that runs from a [ or { to a ] or } if
\* one of the patterns yields a stretch that parses, and it raises when none
\* does (strings of the result have their escaped newlines replaced when
\* fix_newlines is set).
C20_FirstParse ==
    parsed # Unparsed =>
        LET raw == Strip(response_text)
            cleaned == Unfence(raw)
            post(v) == IF fix_newlines /\ v.leaf = "str:escaped"
                       THEN [depth |-> v.depth, leaf |-> "str:newline"] ELSE v
            stretches == {SubSeq(cleaned, i, j) : i \in 1..Len(cleaned), j \in 1..Len(cleaned)}
            bracketed == {x \in stretches : /\ Len(x) >= 2
                                            /\ x[1] \in {"[", "{"}
                                            /\ x[Len(x)] \in {"]", "}"}
                                            /\ Loads(x) # ParseError}
            found == json_patterns(cleaned)
        IN IF raw = <<>> THEN parsed = ParseError
           ELSE IF Loads(raw) # ParseError THEN parsed = post(Loads(raw))
           ELSE IF Loads(cleaned) # ParseError THEN parsed = post(Loads(cleaned))
           ELSE \/ /\ parsed = ParseError
                   /\ \A i \in 1..3 : found[i] = <<>> \/ Loads(found[i]) = ParseError
                \/ /\ parsed # ParseError
                   /\ \E x \in bracketed : parsed = post(Loads(x))

\* the parser recovered a value from a fenced text whose direct parse fails
C20_Witness ==
    /\ parsed \notin {Unparsed, ParseError}
    /\ Loads(Strip(response_text)) = ParseError
    /\ Loads(Unfence(Strip(response_text))) # ParseError
    /\ Len(response_text) >= 1 /\ response_text[1] = "fence"

\* C21: a delete_session request for a session the caller does not own is
\* answered 401, and one for a session id that does not exist is answered
\* 404; either way the request ends there and no session or question changes.
C21_DeleteRejected ==
    [][\A u \in UserIds, sid \in SessionIds :
          (/\ DeleteFind(1, u, sid)
           /\ (sid \notin DOMAIN sessions \/ sessions[sid].user # u))
              => /\ resp'.op = "delete_session"
                 /\ resp'.status = IF sid \in DOMAIN sessions THEN 401 ELSE 404
                 /\ reqs' = reqs
                 /\ UNCHANGED <<sessions, questions>>]_vars

\* a non-owner's delete_session was rejected while a session with questions
\* exists
C21_Witness ==
    /\ resp.op = "delete_session" /\ resp.status = 401
    /\ \E x \in DOMAIN sessions : sessions[x].questions # <<>>
    /\ InFlight = {}

\* C22: of the submit_quiz_service requests made for one quiz, at most one
\* answers success: no request writes and answers success for a quiz for
\* which an earlier request already did, and the stored answers and score
\* stay those of the request that succeeded first.
C22_OneSubmitWins ==
    [][/\ \A p \in Procs :
             (SubmitUpdate(p) /\ reqs[p].zid \in DOMAIN quizzes)
                 => reqs[p].zid \notin DOMAIN submittedOk
       /\ \A z \in DOMAIN submittedOk' \cap DOMAIN quizzes' :
             /\ quizzes'[z].userAnswers = submittedOk'[z].userAnswers
             /\ quizzes'[z].score = submittedOk'[z].score]_vars

\* C23: a step changes a user's stored password only if an OTP record for
\* that email exists and verify_reset_otp succeeded for it since the last
\* forgot_password.
C23_ResetNeedsVerifiedOtp ==
    [][\A e \in DOMAIN passwords :
          passwords'[e] # passwords[e]
              => reset_otps[e].exists /\ otpHist[e].verified]_vars

\* C24: verify_reset_otp answers success only while the record's expiresAt
\* has not passed.
C24_NoSuccessAfterExpiry ==
    [][\A e \in Emails, otp \in OtpCodes :
          (VerifyResetOtp(e, otp) /\ resp'.status = 200)
              => now <= reset_otps[e].expiresAt]_vars

\* C25: between requests, each session's questions array holds exactly the
\* ids of the question documents whose session field is that session, each
\* id once, in the order the documents were inserted (ids are handed out in
\* insertion order, so the array is strictly increasing).
C25_QuestionsArrayExact ==
    InFlight = {} =>
        \A x \in DOMAIN sessions :
            LET arr == sessions[x].questions
            IN /\ RangeOf(arr) = {q \in DOMAIN questions : questions[q].session = x}
               /\ \A i, j \in 1..Len(arr) : i < j => arr[i] < arr[j]

\* a session created with two questions to which a third was added
C25_Witness ==
    /\ InFlight = {}
    /\ resp.op = "add_questions" /\ resp.status = 200
    /\ \E x \in DOMAIN sessions : Len(sessions[x].questions) = 3

\* C26: no two user documents hold the same email.
C26_UniqueEmail ==
    \A a, b \in DOMAIN emails : emails[a] = emails[b] => a = b

\* C27: a request of a user who does not own the session changes no pin
\* flag and no note of that session's questions, and a request of such a
\* user to add questions to the session ends without starting any write.
C27_OwnerOnly ==
    [][/\ \A u \in UserIds, qid \in DOMAIN questions :
             (/\ questions[qid].session \in DOMAIN sessions
              /\ sessions[questions[qid].session].user # u
              /\ (TogglePin(u, qid) \/ \E note \in {"none", "", "n1"} : UpdateNote(u, qid, note)))
                 => questions' = questions
       /\ \A u \in UserIds, sid \in DOMAIN sessions, pairs \in PairSeqs :
             (/\ sessions[sid].user # u
              /\ AddFindSession(1, MaxConcQuestions, u, sid, pairs))
                 => reqs' = reqs]_vars

\* C28: every completed quiz holds a score between 0 and totalQuestions, and
\* its totalQuestions is the number of questions stored in the document.
C28_ScoreInRange ==
    \A z \in DOMAIN quizzes :
        quizzes[z].status = "completed" =>
            /\ 0 <= quizzes[z].score
            /\ quizzes[z].score <= quizzes[z].totalQuestions
            /\ quizzes[z].totalQuestions = Len(quizzes[z].questions)

\* C29: a well-formed request to generate_questions_service,
\* generate_explanation_service or followup_chat_service by a user without a
\* usable key (the field never set, unset by delete_key, or set to null by an
\* admin) is answered 400 'Gemini API key not configured' and the LLM is not
\* called.
C29_NoKeyRejected ==
    [][\A op \in {"generate_questions_service", "generate_explanation_service",
                  "followup_chat_service"},
          u \in UserIds, outcome \in GeminiOutcomes :
          (~HasKey(u) /\ AiService(op, u, TRUE, outcome))
              => /\ resp'.status = 400
                 /\ resp'.msg = "Gemini API key not configured"
                 /\ resp'.calls = 0]_vars

\* C30: a submission whose LLM evaluation or parsing fails ends with the
\* error 'Failed to evaluate quiz' and leaves the quiz document as it was:
\* active, without answers and without a score; and a later submission of
\* that quiz by its owner with a valid answers list is taken up as before.
C30_FailedEvalLeavesQuiz ==
    [][/\ \A p \in Procs, out \in LlmEvalOutputs :
             (out.kind = "error" /\ SubmitEvaluate(p, out))
                 => /\ resp'.op = "submit_quiz" /\ resp'.status = 500
                    /\ reqs'[p] = Idle
                    /\ quizzes' = quizzes
                    /\ reqs[p].zid \in DOMAIN quizzes =>
                          LET quiz == quizzes'[reqs[p].zid]
                          IN /\ quiz.status = "active"
                             /\ quiz.score = None
                             /\ \A i \in DOMAIN quiz.userAnswers :
                                   quiz.userAnswers[i] = None
       /\ \A u \in UserIds, zid \in evalFailed \cap DOMAIN quizzes, answers \in Submissions :
             (/\ quizzes[zid].userId = u
              /\ ~AlreadySubmitted(quizzes[zid])
              /\ Len(answers) = quizzes[zid].totalQuestions
              /\ ~AnswerRejected(answers, FALSE)
              /\ SubmitFind(1, u, zid, answers))
                 => \E p \in Procs : reqs'[p].pc = "submit_llm"]_vars

\* a submission succeeded for a quiz for which an earlier one had ended in a
\* failed evaluation
C30_Witness ==
    /\ resp.op = "submit_quiz" /\ resp.status = 200 /\ resp.wrote
    /\ resp.zid \in evalFailed
    /\ resp.zid \in DOMAIN quizzes
    /\ quizzes[resp.zid].status = "completed"

====
